---- MODULE Spec2Model ----
\* Verification model of the TFRT async-value primitive (AsyncValueRef /
\* AsyncValuePtr over tfrt::AsyncValue) and of the MLIR async runtime built on
\* top of it (AsyncToken, AsyncGroup, AsyncRuntime).
\*
\* Threads are modelled with an explicit call stack of frames; every step of
\* a thread acts on its top frame and is one atomic memory operation of the
\* program (a load, a compare-and-swap, an exchange, a fetch_add/fetch_sub) or
\* one thread-local piece of work.
EXTENDS Integers, Sequences, FiniteSets, TLC

\* ------------------------------------------------------------------ bounds
\* Number of waiters (one registering thread each) on the cell under test.
NumWaiters == 2
\* Payload values 1..NumValues.
NumValues == 2
\* Number of producer calls (emplace / SetError / SetStateConcrete) issued in
\* sequence on the cell under test.
MaxCalls == 2
\* Number of tokens and of threads resolving them (one each).
NumTokens == 2
\* Largest declared group size: every size from zero to the number of tokens,
\* so that a group may get fewer, as many or more tokens than it declared.
MaxGroupSize == NumTokens
\* Number of tokens / values whose owner and producer run in the model of the
\* reference counts and of Await (objects do not interact there).
NumObjects == 1
\* Number of references added to the cell under test by CopyRef / CopyRCRef,
\* and number of AsyncValuePtr views alive at a time.
MaxCopies == 2
\* Number of AddToken calls made by the concurrent adders of one group.
MaxAdds == 3
MaxMoves == 2
\* Requested sizes reach SizeSpan below and above the inline budget, and
\* requested alignments are the powers of two up to 2^MaxAlignLog.
SizeSpan == 2
MaxAlignLog == 5

Waiters == 1..NumWaiters
Values == 1..NumValues
Tokens == 1..NumTokens
Objects == 1..NumObjects

\* ------------------------------------------------------------- identifiers
TestCell == <<"cell", 0>>
CompletedCell == <<"completed", 0>>
TokenCell(t) == <<"token", t>>
Cells == {TestCell, CompletedCell} \cup {TokenCell(t) : t \in Tokens}

Producer == <<"producer", 0>>
Consumer(w) == <<"consumer", w>>
Resolver(t) == <<"resolver", t>>
Adder(a) == <<"adder", a>>
\* The caller that received token t from CreateToken and owns one reference.
Owner(t) == <<"owner", t>>
\* The thread that uses the cell under test through an AsyncValuePtr.
PtrUser == <<"ptr", 0>>
Adders == {Adder(1), Adder(2)}
\* The adder thread of the group under test: its AddToken calls are in sequence.
GroupAdders == {Adder(1)}
CellThreads == {Producer} \cup {Consumer(w) : w \in Waiters}
GroupThreads == {Resolver(t) : t \in Tokens} \cup GroupAdders
RuntimeThreads == {Resolver(t) : t \in Objects} \cup {Owner(t) : t \in Objects}
Threads ==
  CellThreads \cup GroupThreads \cup Adders \cup RuntimeThreads \cup {PtrUser}

\* The error payloads (DecodedDiagnostic messages).
Boom == "boom"
AsyncRuntimeError == "<async runtime error>"
NoError == "none"
\* Payload of a cell whose storage is reserved but holds no T.
NoValue == 0

VARIABLES
  av,       \* av[c]: the cell c: state, payload, error, waiter list
  stack,    \* stack[t]: the call stack of thread t, innermost frame last
  aborted,  \* the process ended in a fatal assertion
  calls,    \* producer calls issued so far on the cell under test
  probe,    \* probe[w]: what the test continuation w recorded
  hist,     \* history of the cell under test (transitions, resolving call)
  group,    \* the AsyncGroup: rank_, pending_tokens_, num_errors_
  token,    \* token[t]: the AsyncToken t: existence, ref count
  adds,     \* history of the group: AddToken calls per token, ranks handed
            \* out, decrements of pending_tokens_ per token
  worker_threads_,  \* AsyncRuntime: an external worker pool is configured
  latch,    \* latch[t]: the latch of the Await call of Owner(t)
  await,    \* await[t]: history of the Await call of Owner(t)
  handles   \* the handles on the cell under test and what they did

vars == <<av, stack, aborted, calls, probe, hist, group, token, adds,
          worker_threads_, latch, await, handles>>
runtimeSide == <<worker_threads_, latch, await>>
cellSide == <<calls, probe, hist>>
groupSide == <<group, token, adds>>

\* ---------------------------------------------------------- tfrt::AsyncValue
\* The cell itself (async_value.h) is described by the specification, sections
\* 3, 4.1, 4.2 and 5: an atomic word holding the state and the waiter list,
\* a compare-and-swap guarded append, and an exchange that publishes the
\* terminal state and takes the list for draining.

Cell(state, payload, error) ==
  [state |-> state, payload |-> payload, error |-> error, waiters |-> <<>>,
   refs |-> 1]

IsAvailableState(s) == s \in {"ConcreteValue", "Error"}

\* The atomic word waiters_and_state of a cell.
WaitersAndState(c) == [state |-> av[c].state, waiters |-> av[c].waiters]

Top(t) == stack[t][Len(stack[t])]
Running(t, op, pc) ==
  /\ ~aborted
  /\ stack[t] # <<>>
  /\ Top(t).op = op
  /\ Top(t).pc = pc
Pop(t) == SubSeq(stack[t], 1, Len(stack[t]) - 1)
Idle(t) == stack[t] = <<>>


\* A waiter is a closure: a test continuation that records what it sees
\* ("probe", id = the waiter) or the lambda AddToken registers on a token
\* ("group", id = the token, reg = the rank of the registration).
ProbeWaiter(w) == [k |-> "probe", id |-> w, reg |-> 0]
GroupWaiter(t, rank) == [k |-> "group", id |-> t, reg |-> rank]
\* The lambda of Await ("latch", id = the token awaited): latch.count_down().
LatchWaiter(t) == [k |-> "latch", id |-> t, reg |-> 0]
\* The wrappers AsyncValuePtr::AndThen makes around a typed continuation
\* ("expected", "error", id = the waiter); they capture the view av_ptr.
ExpectedWaiter(w) == [k |-> "expected", id |-> w, reg |-> 0]
ErrorWaiter(w) == [k |-> "error", id |-> w, reg |-> 0]

\* The frame that runs the closure w.
WaiterFrame(w) ==
  CASE w.k = "probe" -> [op |-> "probe", pc |-> "run", id |-> w.id]
    [] w.k = "group" -> [op |-> "AddToken::waiter", pc |-> "is_error",
                         tok |-> w.id, reg |-> w.reg]
    [] w.k = "latch" -> [op |-> "latch::count_down", pc |-> "run", tok |-> w.id]
    [] w.k = "expected" -> [op |-> "AndThen::Expected", pc |-> "run", id |-> w.id]
    [] w.k = "error" -> [op |-> "AndThen::Error", pc |-> "run", id |-> w.id]

\* RunWaiters(list): the waiters of a taken list are invoked one after the
\* other on the thread that took it. The frames are the loop, holding the
\* waiters still to run, and above it the waiter now running.
RunWaiters(list) ==
  IF list = <<>>
    THEN <<>>
    ELSE (IF Tail(list) = <<>>
            THEN <<>>
            ELSE <<[op |-> "RunWaiters", pc |-> "run", list |-> Tail(list)]>>)
         \o <<WaiterFrame(Head(list))>>

\* A stack whose top frame returned: a RunWaiters loop that comes to the top
\* goes on with its next waiter.
Resume(st) ==
  IF st # <<>> /\ st[Len(st)].op = "RunWaiters"
    THEN SubSeq(st, 1, Len(st) - 1) \o RunWaiters(st[Len(st)].list)
    ELSE st

\* Replace the top frame of t by the frames fs.
Become(t, fs) == stack' = [stack EXCEPT ![t] = Resume(Pop(t) \o fs)]

\* AsyncValue::AndThen(waiter): load the word; an available cell runs the
\* waiter inline, an unavailable one goes on to the guarded append.
AsyncValue_AndThen(c, w) ==
  [op |-> "AndThen", pc |-> "load", cell |-> c, w |-> w,
   old |-> [state |-> "Unconstructed", waiters |-> <<>>]]

\* AsyncValue::emplace(v): construct the payload in place, then publish.
AsyncValue_emplace(c, v) ==
  [op |-> "emplace", pc |-> "construct", cell |-> c, v |-> v]

\* AsyncValue::SetError(diag): store the error, then publish.
AsyncValue_SetError(c, diag) ==
  [op |-> "SetError", pc |-> "store", cell |-> c, diag |-> diag]

\* AsyncValue::SetStateConcrete(): publish the payload constructed earlier.
AsyncValue_SetStateConcrete(c) ==
  [op |-> "SetStateConcrete", pc |-> "publish", cell |-> c]

\* The terminal transition: one exchange that stores the available state with
\* an empty list; the old list is handed to RunWaiters by the caller.
NotifyAvailable(c, s) ==
  /\ av' = [av EXCEPT ![c].state = s, ![c].waiters = <<>>]
  /\ hist' = [hist EXCEPT !.transitions[c] = @ + 1]

\* A usage violation ends the process in a fatal assertion.
Fatal ==
  /\ aborted' = TRUE
  /\ UNCHANGED <<av, stack, hist>>

\* AndThenLoad without the fast path for an available cell: every waiter goes
\* on to the append.
AndThenLoad_NoFastPath(t) ==
  /\ Running(t, "AndThen", "load")
  /\ LET f == Top(t)
     IN Become(t, <<[f EXCEPT !.pc = "cas", !.old = WaitersAndState(f.cell)]>>)
  /\ UNCHANGED <<av, aborted, cellSide, groupSide, runtimeSide, handles>>

\* The first step of AndThen: the acquire load of the word.
AndThenLoad(t) ==
  /\ Running(t, "AndThen", "load")
  /\ LET f == Top(t)
         old == WaitersAndState(f.cell)
     IN IF IsAvailableState(old.state)
          THEN Become(t, <<WaiterFrame(f.w)>>)
          ELSE Become(t, <<[f EXCEPT !.pc = "cas", !.old = old]>>)
  /\ UNCHANGED <<av, aborted, cellSide, groupSide, runtimeSide, handles>>

\* AndThenCAS with a plain store in place of the compare-and-swap: the list
\* read earlier plus the new waiter is written whatever the word holds now.
AndThenCAS_PlainStore(t) ==
  /\ Running(t, "AndThen", "cas")
  /\ LET f == Top(t)
     IN /\ av' = [av EXCEPT ![f.cell].waiters = Append(f.old.waiters, f.w)]
        /\ Become(t, <<>>)
  /\ UNCHANGED <<aborted, cellSide, groupSide, runtimeSide, handles>>

\* The compare-and-swap of the append: it succeeds only on the word last read;
\* on failure it reads the word again and, when the cell became available
\* meanwhile, runs the waiter on the registering thread.
AndThenCAS(t) ==
  /\ Running(t, "AndThen", "cas")
  /\ LET f == Top(t)
         cur == WaitersAndState(f.cell)
     IN IF cur = f.old
          THEN /\ av' = [av EXCEPT ![f.cell].waiters = Append(@, f.w)]
               /\ Become(t, <<>>)
          ELSE /\ UNCHANGED av
               /\ IF IsAvailableState(cur.state)
                    THEN Become(t, <<WaiterFrame(f.w)>>)
                    ELSE Become(t, <<[f EXCEPT !.old = cur]>>)
  /\ UNCHANGED <<aborted, cellSide, groupSide, runtimeSide, handles>>

\* EmplaceConstruct without the check that the cell is unavailable.
EmplaceConstruct_NoCheck(t) ==
  /\ Running(t, "emplace", "construct")
  /\ LET f == Top(t)
     IN /\ av' = [av EXCEPT ![f.cell].payload = f.v]
        /\ Become(t, <<[f EXCEPT !.pc = "publish"]>>)
  /\ UNCHANGED <<aborted, hist, calls, probe, groupSide, runtimeSide, handles>>

\* emplace, first step: the cell must be unavailable; the payload is written.
EmplaceConstruct(t) ==
  /\ Running(t, "emplace", "construct")
  /\ LET f == Top(t)
     IN IF IsAvailableState(av[f.cell].state)
          THEN Fatal
          ELSE /\ av' = [av EXCEPT ![f.cell].payload = f.v]
               /\ Become(t, <<[f EXCEPT !.pc = "publish"]>>)
               /\ UNCHANGED <<aborted, hist>>
  /\ UNCHANGED <<calls, probe, groupSide, runtimeSide, handles>>

\* emplace, second step: publish ConcreteValue and take the waiter list.
EmplacePublish(t) ==
  /\ Running(t, "emplace", "publish")
  /\ LET f == Top(t)
     IN /\ NotifyAvailable(f.cell, "ConcreteValue")
        /\ Become(t, RunWaiters(av[f.cell].waiters))
  /\ UNCHANGED <<aborted, calls, probe, groupSide, runtimeSide, handles>>

\* SetErrorStore without the check that the cell is unavailable.
SetErrorStore_NoCheck(t) ==
  /\ Running(t, "SetError", "store")
  /\ LET f == Top(t)
     IN /\ av' = [av EXCEPT ![f.cell].error = f.diag]
        /\ Become(t, <<[f EXCEPT !.pc = "publish"]>>)
  /\ UNCHANGED <<aborted, hist, calls, probe, groupSide, runtimeSide, handles>>

\* SetError, first step: the cell must be unavailable; the error is stored.
SetErrorStore(t) ==
  /\ Running(t, "SetError", "store")
  /\ LET f == Top(t)
     IN IF IsAvailableState(av[f.cell].state)
          THEN Fatal
          ELSE /\ av' = [av EXCEPT ![f.cell].error = f.diag]
               /\ Become(t, <<[f EXCEPT !.pc = "publish"]>>)
               /\ UNCHANGED <<aborted, hist>>
  /\ UNCHANGED <<calls, probe, groupSide, runtimeSide, handles>>

\* SetError, second step: publish Error and take the waiter list.
SetErrorPublish(t) ==
  /\ Running(t, "SetError", "publish")
  /\ LET f == Top(t)
     IN /\ NotifyAvailable(f.cell, "Error")
        /\ Become(t, RunWaiters(av[f.cell].waiters))
  /\ UNCHANGED <<aborted, calls, probe, groupSide, runtimeSide, handles>>

\* SetStateConcrete: the payload must have been constructed and not published.
SetStateConcretePublish(t) ==
  /\ Running(t, "SetStateConcrete", "publish")
  /\ LET f == Top(t)
     IN IF av[f.cell].state # "Constructed"
          THEN Fatal
          ELSE /\ NotifyAvailable(f.cell, "ConcreteValue")
               /\ Become(t, RunWaiters(av[f.cell].waiters))
               /\ UNCHANGED aborted
  /\ UNCHANGED <<calls, probe, groupSide, runtimeSide, handles>>

\* ------------------------------------------- AsyncValueRef / AsyncValuePtr
\* The typed handles forward to the cell they hold. Each operator gives the
\* frames the call pushes on the calling thread.

\* AndThen calling the waiter itself instead of handing it to the cell.
AndThen_InvokesNow(c, w) == <<WaiterFrame(w)>>

\* AsyncValueRef::AndThen -> AsPtr().AndThen -> value_->AndThen.
AndThen(c, w) == <<AsyncValue_AndThen(c, w)>>

\* emplace that does not forward its arguments to the payload constructor.
emplace_NoArgs(c, v) == <<AsyncValue_emplace(c, NoValue)>>

\* AsyncValueRef::emplace(args...) -> value_->emplace<T>(args...).
emplace(c, v) == <<AsyncValue_emplace(c, v)>>

\* AsyncValueRef::SetError(diag) -> value_->SetError(diag).
SetError(c, diag) == <<AsyncValue_SetError(c, diag)>>

\* AsyncValueRef::SetStateConcrete -> value_->SetStateConcrete().
SetStateConcrete(c) == <<AsyncValue_SetStateConcrete(c)>>

\* The state queries are plain reads of the cell's state.
IsAvailable(c) == IsAvailableState(av[c].state)
IsUnavailable(c) == ~IsAvailableState(av[c].state)
IsConcrete(c) == av[c].state = "ConcreteValue"
IsUnconstructed(c) == av[c].state = "Unconstructed"
IsError(c) == av[c].state = "Error"
get(c) == av[c].payload
GetError(c) == av[c].error

\* MakeConstructedAsyncValueRef marking the cell available at once.
MakeConstructedAsyncValueRef_Available(v) == Cell("ConcreteValue", v, NoError)

\* The factories: a fresh cell holding one reference.
MakeUnconstructedAsyncValueRef == Cell("Unconstructed", NoValue, NoError)
MakeConstructedAsyncValueRef(v) == Cell("Constructed", v, NoError)
MakeAvailableAsyncValueRef(v) == Cell("ConcreteValue", v, NoError)
MakeErrorAsyncValueRef(message) == Cell("Error", NoValue, message)

\* ------------------------------------------------ the cell under test
\* One cell made by any factory, one producer thread issuing up to MaxCalls
\* calls in sequence (producers of a cell are serialized by their callers),
\* and NumWaiters threads that each register one recording continuation at
\* any moment.

NoCall == [op |-> "none", v |-> NoValue, diag |-> NoError]

\* llvm::Error: success, or a StringError holding a message.
Error_success == [failed |-> FALSE, message |-> ""]
MakeStringError(diag) == [failed |-> TRUE, message |-> diag]

\* llvm::Expected<T*>: a pointer to the payload of a cell, or an Error.
NullCell == <<"null", 0>>
ExpectedValue(c) == [form |-> "Expected", ok |-> TRUE, ptr |-> c, err |-> Error_success]
ExpectedError(e) == [form |-> "Expected", ok |-> FALSE, ptr |-> NullCell, err |-> e]
ErrorArg(e) == [form |-> "Error", ok |-> ~e.failed, ptr |-> NullCell, err |-> e]
NoArg == [form |-> "none", ok |-> FALSE, ptr |-> NullCell, err |-> Error_success]

\* AsExpected skipping the error check.
AsExpected_NoErrorCheck(c) == ExpectedValue(c)

\* AsyncValuePtr::AsExpected, after its assertion.
AsExpected(c) ==
  IF IsError(c) THEN ExpectedError(MakeStringError(GetError(c)))
  ELSE ExpectedValue(c)

\* The argument the wrapper of the Error form passes on.
AsError(c) ==
  IF IsError(c) THEN ErrorArg(MakeStringError(GetError(c)))
  ELSE ErrorArg(Error_success)

InitProbe ==
  [started |-> FALSE, availAtCall |-> FALSE, fired |-> 0, early |-> FALSE,
   state |-> "none", payload |-> NoValue, error |-> NoError,
   thread |-> Producer, arg |-> NoArg]

InitHist ==
  [transitions |-> [c \in Cells |-> 0], first |-> NoCall,
   misuse |-> "none", snap |-> MakeUnconstructedAsyncValueRef]

\* The producer's call bookkeeping: the first call on an unavailable cell is
\* the one that resolves it; a call on an available cell is a misuse, and the
\* cell as it was then is remembered.
NoteCall(call) ==
  /\ calls' = calls + 1
  /\ hist' = IF IsAvailable(TestCell)
               THEN [hist EXCEPT !.misuse = call.op, !.snap = av[TestCell]]
               ELSE [hist EXCEPT !.first = call]

ProducerCalls(frames) ==
  /\ ~aborted
  /\ Idle(Producer)
  /\ calls < MaxCalls
  /\ stack' = [stack EXCEPT ![Producer] = frames]
  /\ UNCHANGED <<av, aborted, probe, groupSide, runtimeSide, handles>>

CallEmplace ==
  \E v \in Values :
    /\ ProducerCalls(emplace(TestCell, v))
    /\ NoteCall([op |-> "emplace", v |-> v, diag |-> NoError])

CallSetError ==
  /\ ProducerCalls(SetError(TestCell, Boom))
  /\ NoteCall([op |-> "SetError", v |-> NoValue, diag |-> Boom])

CallSetStateConcrete ==
  /\ ProducerCalls(SetStateConcrete(TestCell))
  /\ NoteCall([op |-> "SetStateConcrete", v |-> NoValue, diag |-> NoError])

\* Thread Consumer(w) calls AndThen with the recording continuation w.
CallAndThen(w) ==
  /\ ~aborted
  /\ Idle(Consumer(w))
  /\ ~probe[w].started
  /\ stack' = [stack EXCEPT ![Consumer(w)] = AndThen(TestCell, ProbeWaiter(w))]
  /\ probe' = [probe EXCEPT ![w].started = TRUE,
                            ![w].availAtCall = IsAvailable(TestCell)]
  /\ UNCHANGED <<av, aborted, calls, hist, groupSide, runtimeSide, handles>>

\* The recording continuation runs: it counts the invocation and notes the
\* thread, the state it observes and, through get() / GetError(), the payload
\* or the error.
InvokeProbe(t) ==
  /\ Running(t, "probe", "run")
  /\ LET w == Top(t).id
     IN probe' = [probe EXCEPT
          ![w].fired = @ + 1,
          ![w].early = @ \/ IsUnavailable(TestCell),
          ![w].state = av[TestCell].state,
          ![w].payload = IF IsConcrete(TestCell) THEN get(TestCell) ELSE NoValue,
          ![w].error = IF IsError(TestCell) THEN GetError(TestCell) ELSE NoError,
          ![w].thread = t]
  /\ Become(t, <<>>)
  /\ UNCHANGED <<av, aborted, calls, hist, groupSide, runtimeSide, handles>>

\* mlir::runtime::AsyncValue::Storage: the inline budget.
kSize == 128
kAlign == 16

\* HostBuffer::CreateUninitialized(size, alignment, allocator).release(): a
\* buffer holding the one reference the storage takes over.
HostBuffer_CreateUninitialized(size, alignment) ==
  [allocated |-> TRUE, refs |-> 1, drops |-> 0, size |-> size,
   alignment |-> alignment]
NoHostBuffer ==
  [allocated |-> FALSE, refs |-> 0, drops |-> 0, size |-> 0, alignment |-> 0]

\* The storage of an object that has none (tokens, groups).
NoStorage ==
  [made |-> FALSE, is_inline |-> FALSE, host_buffer |-> NoHostBuffer,
   size |-> 0, alignment |-> 0, destroyed |-> 0]

\* CanStoreInline looking at the size only.
CanStoreInline_SizeOnly(size, alignment) == size <= kSize

\* Storage::CanStoreInline(size, alignment), for an alignment that is a power
\* of two.
CanStoreInline(size, alignment) == size <= kSize /\ alignment <= kAlign

\* Storage::Storage() and Storage::Storage(allocator, size, alignment); the
\* request is kept with the storage.
Storage_inline(size, alignment) ==
  [made |-> TRUE, is_inline |-> TRUE, host_buffer |-> NoHostBuffer,
   size |-> size, alignment |-> alignment, destroyed |-> 0]
Storage_host(size, alignment) ==
  [made |-> TRUE, is_inline |-> FALSE,
   host_buffer |-> HostBuffer_CreateUninitialized(size, alignment),
   size |-> size, alignment |-> alignment, destroyed |-> 0]

\* Storage::~Storage dropping the buffer without looking at is_inline.
Storage_dtor_AlwaysDrops(st) ==
  [st EXCEPT !.destroyed = @ + 1,
             !.host_buffer.refs = @ - 1, !.host_buffer.drops = @ + 1]

\* Storage::~Storage: if (!is_inline) host_buffer->DropRef().
Storage_dtor(st) ==
  IF ~st.is_inline
    THEN [st EXCEPT !.destroyed = @ + 1,
                    !.host_buffer.refs = @ - 1, !.host_buffer.drops = @ + 1]
    ELSE [st EXCEPT !.destroyed = @ + 1]

\* Thread Consumer(w) calls AsyncValuePtr::AndThen with a continuation taking
\* Expected<T*>, or with one taking Error.
CallAndThenTyped(w, waiter) ==
  /\ ~aborted
  /\ Idle(Consumer(w))
  /\ stack' = [stack EXCEPT ![Consumer(w)] = AndThen(TestCell, waiter)]
  /\ probe' = [probe EXCEPT ![w].started = TRUE,
                            ![w].availAtCall = IsAvailable(TestCell)]
  /\ UNCHANGED <<av, aborted, calls, hist, groupSide, runtimeSide, handles>>

CallAndThenExpected(w) ==
  /\ ~probe[w].started
  /\ CallAndThenTyped(w, ExpectedWaiter(w))

CallAndThenError(w) ==
  /\ ~probe[w].started
  /\ CallAndThenTyped(w, ErrorWaiter(w))

\* The typed continuation runs with the argument arg: it counts the
\* invocation and notes the argument, the value it reads through the pointer
\* of a successful Expected and the message of the error it was given.
InvokeTyped(t, arg) ==
  /\ LET w == Top(t).id
     IN probe' = [probe EXCEPT
          ![w].fired = @ + 1,
          ![w].early = @ \/ IsUnavailable(TestCell),
          ![w].state = av[TestCell].state,
          ![w].payload = IF arg.form = "Expected" /\ arg.ok
                           THEN get(arg.ptr) ELSE NoValue,
          ![w].error = IF arg.err.failed THEN arg.err.message ELSE NoError,
          ![w].thread = t,
          ![w].arg = arg]
  /\ Become(t, <<>>)
  /\ UNCHANGED <<av, calls, hist, groupSide, runtimeSide, handles>>

\* The wrapper of the Expected<T*> form: waiter(av_ptr.AsExpected()), where
\* AsExpected asserts IsAvailable() first.
InvokeExpected(t) ==
  /\ Running(t, "AndThen::Expected", "run")
  /\ \/ /\ IsUnavailable(TestCell)
        /\ aborted' = TRUE
        /\ UNCHANGED <<av, stack, cellSide, groupSide, runtimeSide, handles>>
     \/ /\ InvokeTyped(t, AsExpected(TestCell))
        /\ UNCHANGED aborted

\* The wrapper of the Error form: the error of an Error cell, else success.
InvokeError(t) ==
  /\ Running(t, "AndThen::Error", "run")
  /\ InvokeTyped(t, AsError(TestCell))
  /\ UNCHANGED aborted

\* AsyncRuntimeObject(ref_count): the reference-counted base of tokens, values
\* and groups; with it the history of the object: the producer's call, the
\* owner's DropRef, the number of times it was destroyed.
AsyncRuntimeObject(ref_count, kind) ==
  [ref |-> ref_count, call |-> "none", kind |-> kind, dropped |-> FALSE,
   droppedPending |-> FALSE, destroyed |-> 0, storage |-> NoStorage]

\* The destructor of a runtime object: a value's storage_ goes with it.
AsyncRuntimeObject_dtor(o) ==
  [o EXCEPT !.destroyed = @ + 1,
            !.storage = IF o.kind = "value" THEN Storage_dtor(@) ELSE @]

\* ReferenceCounted::DropRef: the object destroys itself when the count it
\* takes one off was one.
ReferenceCounted_DropRef(o) ==
  IF o.ref = 1 THEN AsyncRuntimeObject_dtor([o EXCEPT !.ref = 0])
  ELSE [o EXCEPT !.ref = @ - 1]

\* No group made yet.
NoGroup ==
  [made |-> FALSE, size |-> 0, rank_ |-> 0, pending_tokens_ |-> 0,
   num_errors_ |-> 0, ref |-> 0, destroyed |-> 0]

\* tfrt::latch: a counter, count_down() and wait().
tfrt_latch(count) == [made |-> TRUE, count |-> count]
NoLatch == [made |-> FALSE, count |-> 0]
latch_count_down(l) == [l EXCEPT !.count = @ - 1]
latch_try_wait(l) == l.count = 0

NoAwait ==
  [called |-> FALSE, fromWorker |-> FALSE, availAtCall |-> FALSE,
   viaHost |-> FALSE, countdowns |-> 0, returned |-> FALSE, state |-> "none",
   raced |-> FALSE]

InitRuntimeSide ==
  /\ worker_threads_ = FALSE
  /\ latch = [t \in Tokens |-> NoLatch]
  /\ await = [t \in Tokens |-> NoAwait]

\* The handles on the cell under test: the factory that made it and the cell
\* as made; the owners alive (AsyncValueRef, RCReference<AsyncValue>, raw
\* pointers that took a reference over); the AsyncValuePtr views alive; the
\* references added through an AsyncValueRef and through an AsyncValuePtr, the
\* references dropped, the destructor runs, and what the last query saw.
NoQuery ==
  [available |-> FALSE, concrete |-> FALSE, error |-> FALSE,
   unconstructed |-> FALSE, value |-> NoValue, diag |-> NoError]

\* No payload read yet; a read notes the accessor, the state of the cell when
\* it was made, whether an assertion rejected it and the value it yielded.
NoRead == [op |-> "none", state |-> "none", rejected |-> FALSE, value |-> NoValue]

MadeBy(factory, cell) ==
  [factory |-> factory, made |-> cell, refs |-> 1, rcs |-> 0, raws |-> 0,
   ptrs |-> 0, refAdds |-> 0, ptrAdds |-> 0, drops |-> 0, destroyed |-> 0,
   seen |-> NoQuery, ndebug |-> FALSE, read |-> NoRead, empty |-> 0,
   moves |-> 0]

InitHandles == MadeBy("MakeUnconstructedAsyncValueRef", MakeUnconstructedAsyncValueRef)

NoAdds ==
  [calls |-> 0, tokens |-> [t \in Tokens |-> 0],
   ranks |-> [r \in 0..(NumTokens + MaxAdds - 1) |-> 0],
   decs |-> [t \in Tokens |-> 0]]

InitGroupSide ==
  /\ group = NoGroup
  /\ token = [t \in Tokens |-> AsyncRuntimeObject(0, "none")]
  /\ adds = NoAdds

Init ==
  /\ \E cell \in {MakeUnconstructedAsyncValueRef, MakeErrorAsyncValueRef(Boom)}
                 \cup {MakeConstructedAsyncValueRef(v) : v \in Values}
                 \cup {MakeAvailableAsyncValueRef(v) : v \in Values} :
       av = [c \in Cells |->
               IF c = TestCell THEN cell ELSE MakeConstructedAsyncValueRef(NoValue)]
  /\ stack = [t \in Threads |-> <<>>]
  /\ aborted = FALSE
  /\ calls = 0
  /\ probe = [w \in Waiters |-> InitProbe]
  /\ hist = InitHist
  /\ InitGroupSide
  /\ InitRuntimeSide
  /\ handles = InitHandles

Next ==
  \/ CallEmplace
  \/ CallSetError
  \/ CallSetStateConcrete
  \/ \E w \in Waiters : CallAndThen(w)
  \/ \E t \in CellThreads : AndThenLoad(t)
  \/ \E t \in CellThreads : AndThenCAS(t)
  \/ \E t \in CellThreads : EmplaceConstruct(t)
  \/ \E t \in CellThreads : EmplacePublish(t)
  \/ \E t \in CellThreads : SetErrorStore(t)
  \/ \E t \in CellThreads : SetErrorPublish(t)
  \/ \E t \in CellThreads : SetStateConcretePublish(t)
  \/ \E t \in CellThreads : InvokeProbe(t)

Spec == Init /\ [][Next]_vars


\* The steps a thread takes on its own once a call is in progress.
ThreadStep(t) ==
  \/ AndThenLoad(t)
  \/ AndThenCAS(t)
  \/ EmplaceConstruct(t)
  \/ EmplacePublish(t)
  \/ SetErrorStore(t)
  \/ SetErrorPublish(t)
  \/ SetStateConcretePublish(t)
  \/ InvokeProbe(t)

\* Every thread that is inside a call keeps being scheduled; which calls are
\* made, and when, is up to the callers.
FairSpec == Spec /\ \A t \in CellThreads : WF_vars(ThreadStep(t))

\* llvm::Expected<T>: a value, or an Error.
ExpectedOf(v) == [ok |-> TRUE, value |-> v, err |-> Error_success]
ExpectedFailed(e) == [ok |-> FALSE, value |-> NoValue, err |-> e]

\* DecodedDiagnostic(const Error&): the diagnostic with the error's message.
DecodedDiagnostic(e) == e.message

\* emplace(Expected<T>) emplacing whatever the Expected holds.
emplace_Expected_IgnoresError(c, v) == emplace(c, v.value)

\* AsyncValueRef::emplace(Expected<T> v): emplace(*v) when v holds a value,
\* SetError(v.takeError()) otherwise.
emplace_Expected(c, v) ==
  IF v.ok THEN emplace(c, v.value)
  ELSE SetError(c, DecodedDiagnostic(v.err))

\* The producer calls emplace(Expected<T>) with a value or with an error.
CallEmplaceExpected ==
  \E v \in {ExpectedOf(x) : x \in Values} \cup {ExpectedFailed(MakeStringError(Boom))} :
    /\ ProducerCalls(emplace_Expected(TestCell, v))
    /\ NoteCall([op |-> "emplace(Expected)", v |-> v.value, diag |-> v.err.message])

\* A cell made by any factory, emplace(Expected<T>) calls and continuations
\* registered at any moment.
ExpectedNext ==
  \/ CallEmplaceExpected
  \/ \E w \in Waiters : CallAndThen(w)
  \/ \E t \in CellThreads : AndThenLoad(t)
  \/ \E t \in CellThreads : AndThenCAS(t)
  \/ \E t \in CellThreads : EmplaceConstruct(t)
  \/ \E t \in CellThreads : EmplacePublish(t)
  \/ \E t \in CellThreads : SetErrorStore(t)
  \/ \E t \in CellThreads : SetErrorPublish(t)
  \/ \E t \in CellThreads : InvokeProbe(t)

ExpectedSpec == Init /\ [][ExpectedNext]_vars

\* A cell made by any factory, the producer's calls and typed continuations
\* registered at any moment.
TypedNext ==
  \/ CallEmplace
  \/ CallSetError
  \/ CallSetStateConcrete
  \/ \E w \in Waiters : CallAndThenExpected(w)
  \/ \E w \in Waiters : CallAndThenError(w)
  \/ \E t \in CellThreads : AndThenLoad(t)
  \/ \E t \in CellThreads : AndThenCAS(t)
  \/ \E t \in CellThreads : EmplaceConstruct(t)
  \/ \E t \in CellThreads : EmplacePublish(t)
  \/ \E t \in CellThreads : SetErrorStore(t)
  \/ \E t \in CellThreads : SetErrorPublish(t)
  \/ \E t \in CellThreads : SetStateConcretePublish(t)
  \/ \E t \in CellThreads : InvokeExpected(t)
  \/ \E t \in CellThreads : InvokeError(t)

TypedSpec == Init /\ [][TypedNext]_vars

\* ------------------------------------- ownership: AsyncValueRef, AsyncValuePtr
\* The reference count of the cell: a copy of an RCReference and FormRef add
\* one reference, the end of an owner takes one off, and the cell is destroyed
\* (its payload destructor runs) when the count it takes one off was one.
RCReference_AddRef(c) == [c EXCEPT !.refs = @ + 1]
AsyncValue_DropRef(c) == [c EXCEPT !.refs = @ - 1]
FormRef(c) == RCReference_AddRef(c)

\* CopyRCRef handing out the same reference a second time.
CopyRCRef_NoAddRef(c) == c

\* AsyncValueRef::CopyRCRef: return value_, a copy of the RCReference.
CopyRCRef(c) == RCReference_AddRef(c)

\* AsyncValueRef::CopyRef: AsyncValueRef(CopyRCRef()).
CopyRef(c) == CopyRCRef(c)

\* AsyncValueRef::release and ReleaseRCRef: the reference moves to a raw
\* pointer or to an RCReference; the cell is not touched.
release(c) == c
ReleaseRCRef(c) == c

\* The converting constructor keeping the source's reference and taking
\* another for the destination.
AsyncValueRef_FromDerived_Copies(c) == RCReference_AddRef(c)

\* AsyncValueRef(AsyncValueRef<DerivedT>&& u) : value_(u.ReleaseRCRef()).
AsyncValueRef_FromDerived(c) == ReleaseRCRef(c)

\* AsyncValueRef::reset, and the destructor of the handle: value_.reset().
reset(c) == AsyncValue_DropRef(c)

\* AsPtr taking a reference for the view it returns.
AsPtr_AddsRef(c) == RCReference_AddRef(c)

\* AsyncValueRef::AsPtr and the constructors of AsyncValuePtr: value_ is set
\* to the cell's address.
AsPtr(c) == c
AsyncValuePtr(c) == c

\* AsyncValuePtr::CopyRef: AsyncValueRef<T>(FormRef(value_)).
AsyncValuePtr_CopyRef(c) == FormRef(c)

\* AsyncValuePtr::emplace / SetError / SetStateConcrete forward to the cell.
AsyncValuePtr_emplace(c, v) == <<AsyncValue_emplace(c, v)>>
AsyncValuePtr_SetError(c, diag) == <<AsyncValue_SetError(c, diag)>>
AsyncValuePtr_SetStateConcrete(c) == <<AsyncValue_SetStateConcrete(c)>>

\* The state queries and accessors of AsyncValuePtr, taken together.
AsyncValuePtr_Query(c) ==
  [available |-> IsAvailable(c), concrete |-> IsConcrete(c),
   error |-> IsError(c), unconstructed |-> IsUnconstructed(c),
   value |-> IF IsConcrete(c) THEN get(c) ELSE NoValue,
   diag |-> IF IsError(c) THEN GetError(c) ELSE NoError]

Alive == handles.destroyed = 0
Copies == handles.refAdds + handles.ptrAdds
Owners == handles.refs + handles.rcs + handles.raws

\* An owning handle makes a copy: CopyRef gives an AsyncValueRef, CopyRCRef an
\* RCReference.
RefCopyRef ==
  /\ ~aborted /\ handles.refs >= 1 /\ Copies < MaxCopies
  /\ av' = [av EXCEPT ![TestCell] = CopyRef(@)]
  /\ handles' = [handles EXCEPT !.refs = @ + 1, !.refAdds = @ + 1]
  /\ UNCHANGED <<stack, aborted, cellSide, groupSide, runtimeSide>>

RefCopyRCRef ==
  /\ ~aborted /\ handles.refs >= 1 /\ Copies < MaxCopies
  /\ av' = [av EXCEPT ![TestCell] = CopyRCRef(@)]
  /\ handles' = [handles EXCEPT !.rcs = @ + 1, !.refAdds = @ + 1]
  /\ UNCHANGED <<stack, aborted, cellSide, groupSide, runtimeSide>>

\* An owning handle gives its reference away, to a raw pointer or to an
\* RCReference.
RefRelease ==
  /\ ~aborted /\ handles.refs >= 1
  /\ av' = [av EXCEPT ![TestCell] = release(@)]
  /\ handles' = [handles EXCEPT !.refs = @ - 1, !.raws = @ + 1, !.empty = @ + 1]
  /\ UNCHANGED <<stack, aborted, cellSide, groupSide, runtimeSide>>

RefReleaseRCRef ==
  /\ ~aborted /\ handles.refs >= 1
  /\ av' = [av EXCEPT ![TestCell] = ReleaseRCRef(@)]
  /\ handles' = [handles EXCEPT !.refs = @ - 1, !.rcs = @ + 1, !.empty = @ + 1]
  /\ UNCHANGED <<stack, aborted, cellSide, groupSide, runtimeSide>>

\* An owner of the given kind ends (reset, destructor, DropRef on the raw
\* pointer): one reference less, and the destruction of the cell when it was
\* the last. The last owner ends only when no call through a view is running.
OwnerEnds(kind) ==
  /\ ~aborted
  /\ handles[kind] >= 1
  /\ av[TestCell].refs = 1 => Idle(PtrUser)
  /\ av' = [av EXCEPT ![TestCell] = reset(@)]
  /\ handles' = [handles EXCEPT
                   ![kind] = @ - 1,
                   !.drops = @ + 1,
                   !.destroyed = IF av[TestCell].refs = 1 THEN @ + 1 ELSE @]
  /\ UNCHANGED <<stack, aborted, cellSide, groupSide, runtimeSide>>

\* AsyncValueRef::reset or the end of the handle.
RefReset ==
  /\ handles.refs >= 1
  /\ OwnerEnds("refs")

\* The end of an RCReference that CopyRCRef or ReleaseRCRef returned.
RCReferenceReset ==
  /\ handles.rcs >= 1
  /\ OwnerEnds("rcs")

\* DropRef on the raw pointer that release returned.
RawDropRef ==
  /\ handles.raws >= 1
  /\ OwnerEnds("raws")

\* A view is made from an owning handle (AsPtr, AsyncValuePtr(ref)), from the
\* raw cell, or by copying a view; a view ends.
PtrFromRef ==
  /\ ~aborted /\ Alive /\ handles.refs >= 1 /\ handles.ptrs < MaxCopies
  /\ av' = [av EXCEPT ![TestCell] = AsPtr(@)]
  /\ handles' = [handles EXCEPT !.ptrs = @ + 1]
  /\ UNCHANGED <<stack, aborted, cellSide, groupSide, runtimeSide>>

PtrFromRaw ==
  /\ ~aborted /\ Alive /\ Owners >= 1 /\ handles.ptrs < MaxCopies
  /\ av' = [av EXCEPT ![TestCell] = AsyncValuePtr(@)]
  /\ handles' = [handles EXCEPT !.ptrs = @ + 1]
  /\ UNCHANGED <<stack, aborted, cellSide, groupSide, runtimeSide>>

PtrCopy ==
  /\ ~aborted /\ handles.ptrs >= 1 /\ handles.ptrs < MaxCopies
  /\ handles' = [handles EXCEPT !.ptrs = @ + 1]
  /\ UNCHANGED <<av, stack, aborted, cellSide, groupSide, runtimeSide>>

PtrDestroy ==
  /\ ~aborted /\ handles.ptrs >= 1
  /\ handles' = [handles EXCEPT !.ptrs = @ - 1]
  /\ UNCHANGED <<av, stack, aborted, cellSide, groupSide, runtimeSide>>

\* The state queries, get and GetError through a view.
PtrQuery ==
  /\ ~aborted /\ Alive /\ handles.ptrs >= 1
  /\ handles.seen # AsyncValuePtr_Query(TestCell)
  /\ handles' = [handles EXCEPT !.seen = AsyncValuePtr_Query(TestCell)]
  /\ UNCHANGED <<av, stack, aborted, cellSide, groupSide, runtimeSide>>

\* AsyncValuePtr::CopyRef makes a new owning handle.
PtrCopyRef ==
  /\ ~aborted /\ Alive /\ handles.ptrs >= 1 /\ Copies < MaxCopies
  /\ av' = [av EXCEPT ![TestCell] = AsyncValuePtr_CopyRef(@)]
  /\ handles' = [handles EXCEPT !.refs = @ + 1, !.ptrAdds = @ + 1]
  /\ UNCHANGED <<stack, aborted, cellSide, groupSide, runtimeSide>>

\* The calls made through a view, on the thread PtrUser.
PtrCalls(frames) ==
  /\ ~aborted /\ Alive /\ handles.ptrs >= 1
  /\ Idle(PtrUser)
  /\ stack' = [stack EXCEPT ![PtrUser] = frames]
  /\ UNCHANGED <<av, aborted, groupSide, runtimeSide, handles>>

PtrCallAndThen ==
  /\ PtrCalls(AndThen(TestCell, ProbeWaiter(1)))
  /\ ~probe[1].started
  /\ probe' = [probe EXCEPT ![1].started = TRUE,
                            ![1].availAtCall = IsAvailable(TestCell)]
  /\ UNCHANGED <<calls, hist>>

PtrCallEmplace ==
  \E v \in Values :
    /\ PtrCalls(AsyncValuePtr_emplace(TestCell, v))
    /\ calls < MaxCalls
    /\ NoteCall([op |-> "emplace", v |-> v, diag |-> NoError])
    /\ UNCHANGED probe

PtrCallSetError ==
  /\ PtrCalls(AsyncValuePtr_SetError(TestCell, Boom))
  /\ calls < MaxCalls
  /\ NoteCall([op |-> "SetError", v |-> NoValue, diag |-> Boom])
  /\ UNCHANGED probe

PtrCallSetStateConcrete ==
  /\ PtrCalls(AsyncValuePtr_SetStateConcrete(TestCell))
  /\ calls < MaxCalls
  /\ NoteCall([op |-> "SetStateConcrete", v |-> NoValue, diag |-> NoError])
  /\ UNCHANGED probe

\* A cell made by any factory, held by one AsyncValueRef.
HandleInit ==
  /\ \E m \in {MadeBy("MakeUnconstructedAsyncValueRef", MakeUnconstructedAsyncValueRef),
                MadeBy("MakeErrorAsyncValueRef", MakeErrorAsyncValueRef(Boom))}
               \cup {MadeBy("MakeConstructedAsyncValueRef", MakeConstructedAsyncValueRef(v)) :
                       v \in Values}
               \cup {MadeBy("MakeAvailableAsyncValueRef", MakeAvailableAsyncValueRef(v)) :
                       v \in Values} :
       /\ handles = m
       /\ av = [c \in Cells |->
                  IF c = TestCell THEN m.made ELSE MakeConstructedAsyncValueRef(NoValue)]
  /\ stack = [t \in Threads |-> <<>>]
  /\ aborted = FALSE
  /\ calls = 0
  /\ probe = [w \in Waiters |-> InitProbe]
  /\ hist = InitHist
  /\ InitGroupSide
  /\ InitRuntimeSide

\* An AsyncValueRef<Derived> is converted into an AsyncValueRef<Base>: the
\* source is left empty and the destination is a new owning handle.
RefConvert ==
  /\ ~aborted /\ handles.refs >= 1 /\ handles.moves < MaxMoves
  /\ av' = [av EXCEPT ![TestCell] = AsyncValueRef_FromDerived(@)]
  /\ handles' = [handles EXCEPT !.empty = @ + 1, !.moves = @ + 1]
  /\ UNCHANGED <<stack, aborted, cellSide, groupSide, runtimeSide>>

\* The end of a handle that was moved from: value_ is null, nothing is
\* dropped.
EmptyRefEnds ==
  /\ ~aborted /\ handles.empty >= 1
  /\ handles' = [handles EXCEPT !.empty = @ - 1]
  /\ UNCHANGED <<av, stack, aborted, cellSide, groupSide, runtimeSide>>

\* The owners of the cell: copies, moves and ends of owning handles.
OwnerNext ==
  \/ RefCopyRef
  \/ RefCopyRCRef
  \/ RefRelease
  \/ RefReleaseRCRef
  \/ RefReset
  \/ RCReferenceReset
  \/ RawDropRef

OwnerSpec == HandleInit /\ [][OwnerNext]_vars

\* The same with the moves between handles: conversion to the base type and
\* the ends of the handles moved from.
MoveNext ==
  \/ RefCopyRef
  \/ RefRelease
  \/ RefReleaseRCRef
  \/ RefConvert
  \/ EmptyRefEnds
  \/ RefReset
  \/ RCReferenceReset
  \/ RawDropRef

MoveSpec == HandleInit /\ [][MoveNext]_vars

\* The views of the cell: AsyncValuePtr made from the owning handle, copied,
\* ended, queried and called through, next to the AsyncValueRef handles that
\* CopyRef makes and that end.
PtrNext ==
  \/ RefReset
  \/ PtrFromRef
  \/ PtrFromRaw
  \/ PtrCopy
  \/ PtrDestroy
  \/ PtrQuery
  \/ PtrCopyRef
  \/ PtrCallAndThen
  \/ PtrCallEmplace
  \/ PtrCallSetError
  \/ PtrCallSetStateConcrete
  \/ AndThenLoad(PtrUser)
  \/ AndThenCAS(PtrUser)
  \/ EmplaceConstruct(PtrUser)
  \/ EmplacePublish(PtrUser)
  \/ SetErrorStore(PtrUser)
  \/ SetErrorPublish(PtrUser)
  \/ SetStateConcretePublish(PtrUser)
  \/ InvokeProbe(PtrUser)

PtrSpec == HandleInit /\ [][PtrNext]_vars

\* ---------------------------------------------------- reading the payload
\* What a read of the payload can come to: the value read, or the assertion
\* that ends the process.
Yields(v) == [rejected |-> FALSE, value |-> v]
Rejected == [rejected |-> TRUE, value |-> NoValue]

\* A read outside the contract in a build without assertions is undefined: it
\* yields whatever the payload region holds.
UndefinedRead == {Yields(v) : v \in Values \cup {NoValue}}

\* AsyncValue::get<T>(): requires IsConcrete(); trapped by an assertion in a
\* build with assertions, undefined otherwise.
AsyncValue_get(c, ndebug) ==
  IF IsConcrete(c) THEN {Yields(get(c))}
  ELSE IF ndebug THEN UndefinedRead
  ELSE {Rejected}

\* AsyncValueRef::get, operator-> and operator*, and AsyncValuePtr::get.
AsyncValueRef_get(c, ndebug) == AsyncValue_get(c, ndebug)
AsyncValueRef_arrow(c, ndebug) == AsyncValueRef_get(c, ndebug)
AsyncValueRef_star(c, ndebug) == AsyncValueRef_get(c, ndebug)
AsyncValuePtr_get(c, ndebug) == AsyncValue_get(c, ndebug)

\* GetStorage with the negation of its assertion dropped.
GetStorage_AssertsError(c, ndebug) ==
  IF ~ndebug /\ ~IsError(c) THEN {Rejected}
  ELSE AsyncValueRef_arrow(c, ndebug)

\* mlir::runtime::AsyncValue::GetStorage: assert(!IsError()), then the buffer
\* is reached through storage_->.
GetStorage(c, ndebug) ==
  IF ~ndebug /\ IsError(c) THEN {Rejected}
  ELSE AsyncValueRef_arrow(c, ndebug)

\* A read of the payload of the cell under test with the accessor op.
Reads(op, outcomes) ==
  /\ ~aborted /\ Alive
  /\ \E r \in outcomes :
       /\ handles' = [handles EXCEPT
            !.read = [op |-> op, state |-> av[TestCell].state,
                      rejected |-> r.rejected, value |-> r.value]]
       /\ aborted' = r.rejected
  /\ UNCHANGED <<av, stack, cellSide, groupSide, runtimeSide>>

ReadGet ==
  /\ handles.refs >= 1
  /\ Reads("get", AsyncValueRef_get(TestCell, handles.ndebug))

ReadArrow ==
  /\ handles.refs >= 1
  /\ Reads("operator->", AsyncValueRef_arrow(TestCell, handles.ndebug))

ReadStar ==
  /\ handles.refs >= 1
  /\ Reads("operator*", AsyncValueRef_star(TestCell, handles.ndebug))

ReadPtrGet ==
  /\ handles.ptrs >= 1
  /\ Reads("AsyncValuePtr::get", AsyncValuePtr_get(TestCell, handles.ndebug))

\* The storage cell of a runtime value is made by MakeConstructedAsyncValueRef.
ReadGetStorage ==
  /\ handles.refs >= 1
  /\ handles.factory = "MakeConstructedAsyncValueRef"
  /\ Reads("GetStorage", GetStorage(TestCell, handles.ndebug))

\* A cell made by any factory, in a build with or without assertions.
ReadInit ==
  /\ \E m \in {MadeBy("MakeUnconstructedAsyncValueRef", MakeUnconstructedAsyncValueRef),
                MadeBy("MakeErrorAsyncValueRef", MakeErrorAsyncValueRef(Boom))}
               \cup {MadeBy("MakeConstructedAsyncValueRef", MakeConstructedAsyncValueRef(v)) :
                       v \in Values}
               \cup {MadeBy("MakeAvailableAsyncValueRef", MakeAvailableAsyncValueRef(v)) :
                       v \in Values},
        nd \in BOOLEAN :
       /\ handles = [m EXCEPT !.ndebug = nd]
       /\ av = [c \in Cells |->
                  IF c = TestCell THEN m.made ELSE MakeConstructedAsyncValueRef(NoValue)]
  /\ stack = [t \in Threads |-> <<>>]
  /\ aborted = FALSE
  /\ calls = 0
  /\ probe = [w \in Waiters |-> InitProbe]
  /\ hist = InitHist
  /\ InitGroupSide
  /\ InitRuntimeSide

\* Reads of the payload at any moment of the producer's calls.
ReadNext ==
  \/ CallEmplace
  \/ CallSetError
  \/ CallSetStateConcrete
  \/ EmplaceConstruct(Producer)
  \/ EmplacePublish(Producer)
  \/ SetErrorStore(Producer)
  \/ SetErrorPublish(Producer)
  \/ SetStateConcretePublish(Producer)
  \/ PtrFromRef
  \/ ReadGet
  \/ ReadArrow
  \/ ReadStar
  \/ ReadPtrGet
  \/ ReadGetStorage

ReadSpec == ReadInit /\ [][ReadNext]_vars

\* ------------------------------------------ mlir::runtime / AsyncRuntime
\* AsyncToken(host, ref_count): a reference-counted object owning a chain
\* cell made by MakeConstructedAsyncValueRef<Chain>.
AsyncToken(ref_count) == AsyncRuntimeObject(ref_count, "token")

\* AsyncValue(host, size, alignment, ref_count): the same with a storage cell,
\* whose storage is inline when CanStoreInline says so.
AsyncValue(size, alignment, ref_count) ==
  [AsyncRuntimeObject(ref_count, "value") EXCEPT
     !.storage = IF CanStoreInline(size, alignment)
                   THEN Storage_inline(size, alignment)
                   ELSE Storage_host(size, alignment)]

\* CreateToken giving the token the single reference of its owner.
CreateToken_OneRef == AsyncToken(1)

\* AsyncRuntime::CreateToken: the token starts with a reference count of 2.
CreateToken == AsyncToken(2)

\* AsyncRuntime::CreateValue: the value starts with a reference count of 2.
CreateValue(size, alignment) == AsyncValue(size, alignment, 2)

\* AsyncGroup::AsyncGroup(size): the counters.
AsyncGroup(size) ==
  [made |-> TRUE, size |-> size, rank_ |-> 0, pending_tokens_ |-> size,
   num_errors_ |-> 0, ref |-> 1, destroyed |-> 0]

\* The constructor without the special case of an empty group.
AsyncGroup_completed_NoZeroCase(size) == MakeConstructedAsyncValueRef(NoValue)

\* AsyncGroup::AsyncGroup(size): completed_, marked ready when size is zero.
AsyncGroup_completed(size) ==
  IF size = 0
    THEN [MakeConstructedAsyncValueRef(NoValue) EXCEPT !.state = "ConcreteValue"]
    ELSE MakeConstructedAsyncValueRef(NoValue)

\* IsError reporting the errors only once every token of the group is in.
AsyncGroup_IsError_OnlyWhenDone ==
  group.num_errors_ # 0 /\ group.pending_tokens_ = 0

\* AsyncGroup::IsError.
AsyncGroup_IsError == group.num_errors_ # 0

\* AsyncRuntime::IsError(group).
AsyncRuntime_IsError(g) == AsyncGroup_IsError

\* AsyncRuntime::CreateGroup(size).
CreateGroup(size) ==
  /\ ~aborted
  /\ ~group.made
  /\ group' = AsyncGroup(size)
  /\ av' = [av EXCEPT ![CompletedCell] = AsyncGroup_completed(size)]
  /\ hist' = [hist EXCEPT !.transitions[CompletedCell] =
                IF IsAvailableState(AsyncGroup_completed(size).state) THEN 1 ELSE 0]
  /\ UNCHANGED <<stack, aborted, calls, probe, token, adds, runtimeSide, handles>>

\* SetAvailable(token) dropping the producer's reference first and making the
\* terminal transition after.
AsyncRuntime_SetAvailable_DropsFirst(t) ==
  <<AsyncValue_SetStateConcrete(TokenCell(t)),
    [op |-> "AsyncRuntime::SetAvailable", pc |-> "DropRef", tok |-> t]>>

\* AsyncRuntime::SetAvailable(token): the terminal transition of the token's
\* cell, then DropRef(token).
AsyncRuntime_SetAvailable(t) ==
  <<[op |-> "AsyncRuntime::SetAvailable", pc |-> "DropRef", tok |-> t],
    AsyncValue_SetStateConcrete(TokenCell(t))>>

\* AsyncRuntime::SetError(token): the cell goes to Error, then DropRef(token).
AsyncRuntime_SetError(t) ==
  <<[op |-> "AsyncRuntime::SetError", pc |-> "DropRef", tok |-> t],
    AsyncValue_SetError(TokenCell(t), AsyncRuntimeError)>>

\* AsyncRuntime::SetAvailable(value) and SetError(value): the same two steps
\* on the value's storage cell.
AsyncRuntime_SetAvailable_Value(v) ==
  <<[op |-> "AsyncRuntime::SetAvailable", pc |-> "DropRef", tok |-> v],
    AsyncValue_SetStateConcrete(TokenCell(v))>>

AsyncRuntime_SetError_Value(v) ==
  <<[op |-> "AsyncRuntime::SetError", pc |-> "DropRef", tok |-> v],
    AsyncValue_SetError(TokenCell(v), AsyncRuntimeError)>>

\* AsyncGroup::AddToken(token), called by AsyncRuntime::AddTokenToGroup.
AsyncGroup_AddToken(t) ==
  <<[op |-> "AddToken", pc |-> "fetch_add", tok |-> t]>>

\* The producer of token t resolves it, once, to a value or to an error.
CallSetAvailable(t) ==
  /\ ~aborted
  /\ Idle(Resolver(t))
  /\ token[t].call = "none"
  /\ stack' = [stack EXCEPT ![Resolver(t)] =
                 IF token[t].kind = "value"
                   THEN AsyncRuntime_SetAvailable_Value(t)
                   ELSE AsyncRuntime_SetAvailable(t)]
  /\ token' = [token EXCEPT ![t].call = "SetAvailable"]
  /\ UNCHANGED <<av, aborted, cellSide, runtimeSide, handles, group, adds>>

CallSetErrorToken(t) ==
  /\ ~aborted
  /\ Idle(Resolver(t))
  /\ token[t].call = "none"
  /\ stack' = [stack EXCEPT ![Resolver(t)] =
                 IF token[t].kind = "value"
                   THEN AsyncRuntime_SetError_Value(t)
                   ELSE AsyncRuntime_SetError(t)]
  /\ token' = [token EXCEPT ![t].call = "SetError"]
  /\ UNCHANGED <<av, aborted, cellSide, runtimeSide, handles, group, adds>>

\* The last step of SetAvailable / SetError: DropRef(token).
DropRef(th) ==
  /\ \/ Running(th, "AsyncRuntime::SetAvailable", "DropRef")
     \/ Running(th, "AsyncRuntime::SetError", "DropRef")
  /\ token' = [token EXCEPT ![Top(th).tok] = ReferenceCounted_DropRef(@)]
  /\ Become(th, <<>>)
  /\ UNCHANGED <<av, aborted, cellSide, runtimeSide, handles, group, adds>>

\* An adder thread calls AddTokenToGroup(group, token) with any token.
CallAddToken(a, t) ==
  /\ ~aborted
  /\ group.made
  /\ Idle(a)
  /\ adds.tokens[t] = 0
  /\ stack' = [stack EXCEPT ![a] = AsyncGroup_AddToken(t)]
  /\ adds' = [adds EXCEPT !.calls = @ + 1, !.tokens[t] = @ + 1]
  /\ UNCHANGED <<av, aborted, cellSide, runtimeSide, handles, group, token>>

\* An adder thread calls AddTokenToGroup(group, token) with any token, added
\* before or not.
CallAddTokenAgain(a, t) ==
  /\ ~aborted
  /\ group.made
  /\ Idle(a)
  /\ adds.calls < MaxAdds
  /\ stack' = [stack EXCEPT ![a] = AsyncGroup_AddToken(t)]
  /\ adds' = [adds EXCEPT !.calls = @ + 1, !.tokens[t] = @ + 1]
  /\ UNCHANGED <<av, aborted, cellSide, runtimeSide, handles, group, token>>

\* AddToken registering its lambda on the group's completion cell instead of
\* the token's cell.
AddTokenFetchAdd_WaitsOnCompletion(th) ==
  /\ Running(th, "AddToken", "fetch_add")
  /\ LET f == Top(th)
         rank == group.rank_
     IN /\ group' = [group EXCEPT !.rank_ = @ + 1]
        /\ adds' = [adds EXCEPT !.ranks[rank] = @ + 1]
        /\ Become(th, <<AsyncValue_AndThen(CompletedCell, GroupWaiter(f.tok, rank))>>)
  /\ UNCHANGED <<av, aborted, cellSide, runtimeSide, handles, token>>

\* AddToken reading rank_ without incrementing it.
AddTokenFetchAdd_NoIncrement(th) ==
  /\ Running(th, "AddToken", "fetch_add")
  /\ LET f == Top(th)
         rank == group.rank_
     IN /\ adds' = [adds EXCEPT !.ranks[rank] = @ + 1]
        /\ Become(th, <<AsyncValue_AndThen(TokenCell(f.tok), GroupWaiter(f.tok, rank))>>)
  /\ UNCHANGED <<av, aborted, cellSide, runtimeSide, handles, token, group>>

\* AddToken: rank_.fetch_add(1), then AndThen on the token's cell with the
\* lambda capturing the group and the token; the rank is returned when AndThen
\* has returned.
AddTokenFetchAdd(th) ==
  /\ Running(th, "AddToken", "fetch_add")
  /\ LET f == Top(th)
         rank == group.rank_
     IN /\ group' = [group EXCEPT !.rank_ = @ + 1]
        /\ adds' = [adds EXCEPT !.ranks[rank] = @ + 1]
        /\ Become(th, <<AsyncValue_AndThen(TokenCell(f.tok), GroupWaiter(f.tok, rank))>>)
  /\ UNCHANGED <<av, aborted, cellSide, runtimeSide, handles, token>>

\* The lambda's first statement updating the wrong counter: an error token
\* takes one off pending_tokens_ instead of adding one to num_errors_.
WaiterIsError_WrongCounter(th) ==
  /\ Running(th, "AddToken::waiter", "is_error")
  /\ group' = [group EXCEPT !.pending_tokens_ =
                 IF IsError(TokenCell(Top(th).tok)) THEN @ - 1 ELSE @]
  /\ Become(th, <<[Top(th) EXCEPT !.pc = "assert"]>>)
  /\ UNCHANGED <<av, aborted, cellSide, runtimeSide, handles, token, adds>>

\* The lambda without its first statement: no error is counted.
WaiterIsError_NoCount(th) ==
  /\ Running(th, "AddToken::waiter", "is_error")
  /\ Become(th, <<[Top(th) EXCEPT !.pc = "assert"]>>)
  /\ UNCHANGED <<av, aborted, cellSide, runtimeSide, handles, token, adds, group>>

\* The lambda, first statement: count the error of the token.
WaiterIsError(th) ==
  /\ Running(th, "AddToken::waiter", "is_error")
  /\ group' = [group EXCEPT !.num_errors_ =
                 IF IsError(TokenCell(Top(th).tok)) THEN @ + 1 ELSE @]
  /\ Become(th, <<[Top(th) EXCEPT !.pc = "assert"]>>)
  /\ UNCHANGED <<av, aborted, cellSide, runtimeSide, handles, token, adds>>

\* The lambda, second statement: assert(pending_tokens_ > 0). A build with
\* assertions ends the process when it fails; a build without goes on.
WaiterAssert(th) ==
  /\ Running(th, "AddToken::waiter", "assert")
  /\ \/ /\ group.pending_tokens_ > 0
        /\ Become(th, <<[Top(th) EXCEPT !.pc = "fetch_sub"]>>)
        /\ UNCHANGED aborted
     \/ /\ group.pending_tokens_ <= 0
        /\ aborted' = TRUE
        /\ UNCHANGED stack
     \/ /\ group.pending_tokens_ <= 0
        /\ Become(th, <<[Top(th) EXCEPT !.pc = "fetch_sub"]>>)
        /\ UNCHANGED aborted
  /\ UNCHANGED <<av, cellSide, groupSide, runtimeSide, handles>>

\* The lambda's last statement comparing the result of fetch_sub, which is the
\* value before the decrement, with the value after it.
WaiterFetchSub_ComparesNewValue(th) ==
  /\ Running(th, "AddToken::waiter", "fetch_sub")
  /\ LET f == Top(th)
         old == group.pending_tokens_
     IN /\ group' = [group EXCEPT !.pending_tokens_ = @ - 1]
        /\ adds' = [adds EXCEPT !.decs[f.tok] = @ + 1]
        /\ IF old = 0
             THEN Become(th, SetStateConcrete(CompletedCell))
             ELSE Become(th, <<>>)
  /\ UNCHANGED <<av, aborted, cellSide, runtimeSide, handles, token>>

\* The lambda's last statement passing the group's errors on to the
\* completion cell.
WaiterFetchSub_PropagatesError(th) ==
  /\ Running(th, "AddToken::waiter", "fetch_sub")
  /\ LET f == Top(th)
         old == group.pending_tokens_
     IN /\ group' = [group EXCEPT !.pending_tokens_ = @ - 1]
        /\ adds' = [adds EXCEPT !.decs[f.tok] = @ + 1]
        /\ IF old = 1
             THEN IF group.num_errors_ # 0
                    THEN Become(th, SetError(CompletedCell, AsyncRuntimeError))
                    ELSE Become(th, SetStateConcrete(CompletedCell))
             ELSE Become(th, <<>>)
  /\ UNCHANGED <<av, aborted, cellSide, runtimeSide, handles, token>>

\* The lambda's last statement marking the completion cell whenever no token
\* is pending any more.
WaiterFetchSub_MarksWhenNonePending(th) ==
  /\ Running(th, "AddToken::waiter", "fetch_sub")
  /\ LET f == Top(th)
         old == group.pending_tokens_
     IN /\ group' = [group EXCEPT !.pending_tokens_ = @ - 1]
        /\ adds' = [adds EXCEPT !.decs[f.tok] = @ + 1]
        /\ IF old <= 1
             THEN Become(th, SetStateConcrete(CompletedCell))
             ELSE Become(th, <<>>)
  /\ UNCHANGED <<av, aborted, cellSide, runtimeSide, handles, token>>

\* The lambda, third statement: pending_tokens_.fetch_sub(1); the thread that
\* read 1 marks the completion cell available.
WaiterFetchSub(th) ==
  /\ Running(th, "AddToken::waiter", "fetch_sub")
  /\ LET f == Top(th)
         old == group.pending_tokens_
     IN /\ group' = [group EXCEPT !.pending_tokens_ = @ - 1]
        /\ adds' = [adds EXCEPT !.decs[f.tok] = @ + 1]
        /\ IF old = 1
             THEN Become(th, SetStateConcrete(CompletedCell))
             ELSE Become(th, <<>>)
  /\ UNCHANGED <<av, aborted, cellSide, runtimeSide, handles, token>>

\* A group of any declared size up to MaxGroupSize, NumTokens tokens with one
\* resolving thread each, and adder threads that register the tokens with the
\* group, each token once, in any order and at any moment.
GroupInit ==
  /\ av = [c \in Cells |->
             IF c = TestCell THEN MakeUnconstructedAsyncValueRef
                             ELSE MakeConstructedAsyncValueRef(NoValue)]
  /\ stack = [t \in Threads |-> <<>>]
  /\ aborted = FALSE
  /\ calls = 0
  /\ probe = [w \in Waiters |-> InitProbe]
  /\ hist = InitHist
  /\ group = NoGroup
  /\ token = [t \in Tokens |-> CreateToken]
  /\ adds = NoAdds
  /\ InitRuntimeSide
  /\ handles = InitHandles

GroupNext ==
  \/ \E size \in 0..MaxGroupSize : CreateGroup(size)
  \/ \E t \in Tokens : CallSetAvailable(t)
  \/ \E t \in Tokens : CallSetErrorToken(t)
  \/ \E a \in GroupAdders, t \in Tokens : CallAddToken(a, t)
  \/ \E th \in GroupThreads : AddTokenFetchAdd(th)
  \/ \E th \in GroupThreads : AndThenLoad(th)
  \/ \E th \in GroupThreads : AndThenCAS(th)
  \/ \E th \in GroupThreads : SetStateConcretePublish(th)
  \/ \E th \in GroupThreads : SetErrorStore(th)
  \/ \E th \in GroupThreads : SetErrorPublish(th)
  \/ \E th \in GroupThreads : WaiterIsError(th)
  \/ \E th \in GroupThreads : WaiterAssert(th)
  \/ \E th \in GroupThreads : WaiterFetchSub(th)
  \/ \E th \in GroupThreads : DropRef(th)

GroupSpec == GroupInit /\ [][GroupNext]_vars

\* Several adder threads registering tokens with one group concurrently, any
\* token any number of times. Each token is pending, or was resolved to a
\* value or to an error before the group was made.
ResolvedToken(call) ==
  [ReferenceCounted_DropRef(CreateToken) EXCEPT !.call = call]

ResolvedCell(call) ==
  IF call = "SetError"
    THEN [MakeConstructedAsyncValueRef(NoValue) EXCEPT
            !.state = "Error", !.error = AsyncRuntimeError]
    ELSE [MakeConstructedAsyncValueRef(NoValue) EXCEPT !.state = "ConcreteValue"]

RankInit ==
  /\ \E how \in [Tokens -> {"none", "SetAvailable", "SetError"}] :
       /\ token = [t \in Tokens |->
                     IF how[t] = "none" THEN CreateToken ELSE ResolvedToken(how[t])]
       /\ av = [c \in Cells |->
                  IF \E t \in Tokens : c = TokenCell(t) /\ how[t] # "none"
                    THEN ResolvedCell(how[CHOOSE t \in Tokens : c = TokenCell(t)])
                    ELSE IF c = TestCell THEN MakeUnconstructedAsyncValueRef
                         ELSE MakeConstructedAsyncValueRef(NoValue)]
  /\ stack = [t \in Threads |-> <<>>]
  /\ aborted = FALSE
  /\ calls = 0
  /\ probe = [w \in Waiters |-> InitProbe]
  /\ hist = InitHist
  /\ group = NoGroup
  /\ adds = NoAdds
  /\ InitRuntimeSide
  /\ handles = InitHandles

RankNext ==
  \/ \E size \in 0..MaxGroupSize : CreateGroup(size)
  \/ \E a \in Adders, t \in Tokens : CallAddTokenAgain(a, t)
  \/ \E th \in Adders : AddTokenFetchAdd(th)
  \/ \E th \in Adders : AndThenLoad(th)
  \/ \E th \in Adders : AndThenCAS(th)
  \/ \E th \in Adders : WaiterIsError(th)
  \/ \E th \in Adders : WaiterAssert(th)
  \/ \E th \in Adders : WaiterFetchSub(th)
  \/ \E th \in Adders : SetStateConcretePublish(th)

RankSpec == RankInit /\ [][RankNext]_vars

\* ------------------------------------------------- AsyncRuntime::Await
\* AsyncRuntime::Await(awaitable), entered through AwaitToken / AwaitValue.
Await(c, t) == <<[op |-> "Await", pc |-> "enter", cell |-> c, tok |-> t]>>
AsyncRuntime_AwaitToken(t) == Await(TokenCell(t), t)
AsyncRuntime_AwaitValue(v) == Await(TokenCell(v), v)

\* The owner of object t calls AwaitToken / AwaitValue, from a thread that is
\* or is not a worker of the host scheduler; it still holds its reference.
CallAwait(t, isWorker) ==
  /\ ~aborted
  /\ Idle(Owner(t))
  /\ ~await[t].called
  /\ ~token[t].dropped
  /\ stack' = [stack EXCEPT ![Owner(t)] =
                 IF token[t].kind = "value"
                   THEN AsyncRuntime_AwaitValue(t)
                   ELSE AsyncRuntime_AwaitToken(t)]
  /\ await' = [await EXCEPT ![t].called = TRUE, ![t].fromWorker = isWorker,
                            ![t].availAtCall = IsAvailable(TokenCell(t))]
  /\ UNCHANGED <<av, aborted, cellSide, groupSide, worker_threads_, latch,
                 handles>>

\* The owner drops the reference CreateToken / CreateValue returned to it.
OwnerDropRef(t) ==
  /\ ~aborted
  /\ Idle(Owner(t))
  /\ ~token[t].dropped
  /\ token' = [token EXCEPT
                 ![t] = [ReferenceCounted_DropRef(@) EXCEPT
                           !.dropped = TRUE,
                           !.droppedPending = IsUnavailable(TokenCell(t))]]
  /\ UNCHANGED <<av, stack, aborted, cellSide, group, adds, runtimeSide,
                 handles>>

\* Await that registers the lambda and returns without waiting on the latch.
AwaitEnter_NoWait(th) ==
  /\ Running(th, "Await", "enter")
  /\ LET f == Top(th)
     IN IF worker_threads_
          THEN /\ latch' = [latch EXCEPT ![f.tok] = tfrt_latch(1)]
               /\ Become(th, <<AsyncValue_AndThen(f.cell, LatchWaiter(f.tok))>>)
               /\ UNCHANGED av
          ELSE /\ av' = [av EXCEPT ![f.cell].refs = @ + 1]
               /\ Become(th, <<[f EXCEPT !.pc = "host"]>>)
               /\ UNCHANGED latch
  /\ UNCHANGED <<aborted, cellSide, groupSide, worker_threads_, await, handles>>

\* Await whose latch is initialised to 2.
AwaitEnter_LatchOfTwo(th) ==
  /\ Running(th, "Await", "enter")
  /\ LET f == Top(th)
     IN IF worker_threads_
          THEN /\ latch' = [latch EXCEPT ![f.tok] = tfrt_latch(2)]
               /\ Become(th, <<[f EXCEPT !.pc = "wait"],
                               AsyncValue_AndThen(f.cell, LatchWaiter(f.tok))>>)
               /\ UNCHANGED av
          ELSE /\ av' = [av EXCEPT ![f.cell].refs = @ + 1]
               /\ Become(th, <<[f EXCEPT !.pc = "host"]>>)
               /\ UNCHANGED latch
  /\ UNCHANGED <<aborted, cellSide, groupSide, worker_threads_, await, handles>>

\* Await that takes the latch path whether or not worker threads are set.
AwaitEnter_AlwaysLatch(th) ==
  /\ Running(th, "Await", "enter")
  /\ LET f == Top(th)
     IN /\ latch' = [latch EXCEPT ![f.tok] = tfrt_latch(1)]
        /\ Become(th, <<[f EXCEPT !.pc = "wait"],
                        AsyncValue_AndThen(f.cell, LatchWaiter(f.tok))>>)
        /\ UNCHANGED av
  /\ UNCHANGED <<aborted, cellSide, groupSide, worker_threads_, await, handles>>

\* Await: with worker threads, a latch of 1 and AndThen with the lambda that
\* counts it down, then latch.wait(); without, FormRef(awaitable) and the host
\* context's Await.
AwaitEnter(th) ==
  /\ Running(th, "Await", "enter")
  /\ LET f == Top(th)
     IN IF worker_threads_
          THEN /\ latch' = [latch EXCEPT ![f.tok] = tfrt_latch(1)]
               /\ Become(th, <<[f EXCEPT !.pc = "wait"],
                               AsyncValue_AndThen(f.cell, LatchWaiter(f.tok))>>)
               /\ UNCHANGED av
          ELSE /\ av' = [av EXCEPT ![f.cell].refs = @ + 1]
               /\ Become(th, <<[f EXCEPT !.pc = "host"]>>)
               /\ UNCHANGED latch
  /\ UNCHANGED <<aborted, cellSide, groupSide, worker_threads_, await, handles>>

\* The lambda of Await runs: latch.count_down().
LatchCountDown(th) ==
  /\ Running(th, "latch::count_down", "run")
  /\ LET t == Top(th).tok
     IN /\ latch' = [latch EXCEPT ![t] = latch_count_down(@)]
        /\ await' = [await EXCEPT ![t].countdowns = @ + 1,
                                  ![t].raced = @ \/ (th = Owner(t)
                                                     /\ ~await[t].availAtCall)]
  /\ Become(th, <<>>)
  /\ UNCHANGED <<av, aborted, cellSide, groupSide, worker_threads_, handles>>

\* latch.wait() returning whatever the count is.
LatchWait_NoBlock(th) ==
  /\ Running(th, "Await", "wait")
  /\ LET f == Top(th)
     IN await' = [await EXCEPT ![f.tok].returned = TRUE,
                               ![f.tok].state = av[f.cell].state]
  /\ Become(th, <<>>)
  /\ UNCHANGED <<av, aborted, cellSide, groupSide, worker_threads_, latch,
                 handles>>

\* latch.wait() blocks until the count is zero; then Await returns.
LatchWait(th) ==
  /\ Running(th, "Await", "wait")
  /\ LET f == Top(th)
     IN /\ latch_try_wait(latch[f.tok])
        /\ await' = [await EXCEPT ![f.tok].returned = TRUE,
                                  ![f.tok].state = av[f.cell].state]
  /\ Become(th, <<>>)
  /\ UNCHANGED <<av, aborted, cellSide, groupSide, worker_threads_, latch,
                 handles>>

\* HostContext::Await, on entry: a caller that is a worker thread of the host
\* context is a fatal usage error.
HostAwaitCheck(th) ==
  /\ Running(th, "Await", "host")
  /\ LET f == Top(th)
     IN /\ await' = [await EXCEPT ![f.tok].viaHost = TRUE]
        /\ IF await[f.tok].fromWorker
             THEN /\ aborted' = TRUE
                  /\ UNCHANGED stack
             ELSE /\ Become(th, <<[f EXCEPT !.pc = "host_wait"]>>)
                  /\ UNCHANGED aborted
  /\ UNCHANGED <<av, cellSide, groupSide, worker_threads_, latch, handles>>

\* HostContext::Await blocks until the value is available; the reference
\* formed for the call is dropped on return.
HostAwaitWait(th) ==
  /\ Running(th, "Await", "host_wait")
  /\ LET f == Top(th)
     IN /\ IsAvailable(f.cell)
        /\ av' = [av EXCEPT ![f.cell].refs = @ - 1]
        /\ await' = [await EXCEPT ![f.tok].returned = TRUE,
                                  ![f.tok].state = av[f.cell].state]
  /\ Become(th, <<>>)
  /\ UNCHANGED <<aborted, cellSide, groupSide, worker_threads_, latch, handles>>

\* A runtime with or without worker threads, NumObjects objects made by
\* CreateToken or CreateValue, each with the thread that resolves it and the
\* owner that may await it and drops its reference.
RuntimeInit ==
  /\ av = [c \in Cells |->
             IF c = TestCell THEN MakeUnconstructedAsyncValueRef
                             ELSE MakeConstructedAsyncValueRef(NoValue)]
  /\ stack = [t \in Threads |-> <<>>]
  /\ aborted = FALSE
  /\ calls = 0
  /\ probe = [w \in Waiters |-> InitProbe]
  /\ hist = InitHist
  /\ group = NoGroup
  /\ token \in [Tokens -> {CreateToken, CreateValue(kSize, kAlign)}]
  /\ \A t \in Tokens \ Objects : token[t] = CreateToken
  /\ adds = NoAdds
  /\ worker_threads_ \in BOOLEAN
  /\ latch = [t \in Tokens |-> NoLatch]
  /\ await = [t \in Tokens |-> NoAwait]
  /\ handles = InitHandles

RuntimeStep(th) ==
  \/ SetStateConcretePublish(th)
  \/ SetErrorStore(th)
  \/ SetErrorPublish(th)
  \/ DropRef(th)
  \/ AwaitEnter(th)
  \/ AndThenLoad(th)
  \/ AndThenCAS(th)
  \/ LatchCountDown(th)
  \/ LatchWait(th)
  \/ HostAwaitCheck(th)
  \/ HostAwaitWait(th)

RuntimeNext ==
  \/ \E t \in Objects : CallSetAvailable(t)
  \/ \E t \in Objects : CallSetErrorToken(t)
  \/ \E t \in Objects : OwnerDropRef(t)
  \/ \E t \in Objects, isWorker \in BOOLEAN : CallAwait(t, isWorker)
  \/ \E th \in RuntimeThreads : SetStateConcretePublish(th)
  \/ \E th \in RuntimeThreads : SetErrorStore(th)
  \/ \E th \in RuntimeThreads : SetErrorPublish(th)
  \/ \E th \in RuntimeThreads : DropRef(th)
  \/ \E th \in RuntimeThreads : AwaitEnter(th)
  \/ \E th \in RuntimeThreads : AndThenLoad(th)
  \/ \E th \in RuntimeThreads : AndThenCAS(th)
  \/ \E th \in RuntimeThreads : LatchCountDown(th)
  \/ \E th \in RuntimeThreads : LatchWait(th)
  \/ \E th \in RuntimeThreads : HostAwaitCheck(th)
  \/ \E th \in RuntimeThreads : HostAwaitWait(th)

RuntimeSpec == RuntimeInit /\ [][RuntimeNext]_vars

\* Every thread inside a call keeps being scheduled.
RuntimeFairSpec ==
  RuntimeSpec /\ \A th \in RuntimeThreads : WF_vars(RuntimeStep(th))

\* ------------------------------------------------ the storage of a value
RECURSIVE PowerOfTwo(_)
PowerOfTwo(k) == IF k = 0 THEN 1 ELSE 2 * PowerOfTwo(k - 1)

Sizes == {0} \cup ((kSize - SizeSpan)..(kSize + SizeSpan))
Alignments == {PowerOfTwo(k) : k \in 0..MaxAlignLog}

\* One value made by CreateValue(size, alignment) for any request; its
\* producer resolves it and its owner drops the reference, in any order.
StorageInit ==
  /\ av = [c \in Cells |->
             IF c = TestCell THEN MakeUnconstructedAsyncValueRef
                             ELSE MakeConstructedAsyncValueRef(NoValue)]
  /\ stack = [t \in Threads |-> <<>>]
  /\ aborted = FALSE
  /\ calls = 0
  /\ probe = [w \in Waiters |-> InitProbe]
  /\ hist = InitHist
  /\ group = NoGroup
  /\ \E size \in Sizes, alignment \in Alignments :
       token = [t \in Tokens |->
                  IF t \in Objects THEN CreateValue(size, alignment)
                  ELSE CreateToken]
  /\ adds = NoAdds
  /\ InitRuntimeSide
  /\ handles = InitHandles

StorageNext ==
  \/ \E t \in Objects : CallSetAvailable(t)
  \/ \E t \in Objects : CallSetErrorToken(t)
  \/ \E t \in Objects : OwnerDropRef(t)
  \/ \E t \in Objects : SetStateConcretePublish(Resolver(t))
  \/ \E t \in Objects : SetErrorStore(Resolver(t))
  \/ \E t \in Objects : SetErrorPublish(Resolver(t))
  \/ \E t \in Objects : DropRef(Resolver(t))

StorageSpec == StorageInit /\ [][StorageNext]_vars

\* ------------------------------------------------------------------ claims

Queued(w) ==
  \/ \E i \in 1..Len(av[TestCell].waiters) : av[TestCell].waiters[i] = ProbeWaiter(w)
  \/ \E t \in CellThreads : \E i \in 1..Len(stack[t]) :
       /\ stack[t][i].op = "RunWaiters"
       /\ \E j \in 1..Len(stack[t][i].list) : stack[t][i].list[j] = ProbeWaiter(w)

ResolvedByEmplace == hist.first.op = "emplace"

\* C1: whatever the order of the AndThen registrations and the terminal
\* transition (before, after, racing), no waiter is invoked more than once and
\* no waiter is invoked while the cell is still unavailable.
C1_WaiterOnceAndNotEarly ==
  \A w \in Waiters : probe[w].fired <= 1 /\ ~probe[w].early

\* One waiter was queued and run by the transitioning thread, another lost the
\* race of its compare-and-swap against the transition and ran on its own
\* thread, although the cell was unavailable when it called AndThen.
C1_Witness ==
  \E w1, w2 \in Waiters :
    /\ probe[w1].fired = 1 /\ probe[w1].thread = Producer
    /\ probe[w2].fired = 1 /\ probe[w2].thread = Consumer(w2)
    /\ ~probe[w2].availAtCall

\* C2: once the cell has undergone its terminal transition, every waiter whose
\* AndThen call has started (before or racing with the transition) is
\* eventually invoked, unless the process was ended by a fatal assertion.
C2_NoLostWaiter ==
  \A w \in Waiters :
    (probe[w].started /\ hist.transitions[TestCell] >= 1)
      ~> (probe[w].fired >= 1 \/ aborted)

\* A waiter that was in the list when the transition took it has been run by
\* the transitioning thread.
C2_Witness ==
  \E w \in Waiters :
    /\ ~probe[w].availAtCall
    /\ hist.transitions[TestCell] = 1
    /\ probe[w].fired = 1 /\ probe[w].thread = Producer

\* C3: a cell that is ConcreteValue or Error keeps its state, its value and
\* its error in every step.
C3_AvailableIsFinal ==
  [][\A c \in Cells :
       IsAvailable(c) =>
         /\ av'[c].state = av[c].state
         /\ av'[c].payload = av[c].payload
         /\ av'[c].error = av[c].error]_vars

\* An Error cell on which emplace was then attempted.
C3_Witness ==
  /\ IsError(TestCell)
  /\ hist.misuse = "emplace"
  /\ aborted

C5_InlineWhenAvailable ==
  \A w \in Waiters :
    probe[w].availAtCall =>
      /\ ~Queued(w)
      /\ probe[w].fired >= 1 => probe[w].thread = Consumer(w)
      /\ Idle(Consumer(w)) => probe[w].fired = 1

C5_Witness ==
  \E w \in Waiters :
    /\ probe[w].availAtCall
    /\ Idle(Consumer(w))
    /\ probe[w].fired = 1
    /\ probe[w].thread = Consumer(w)

\* C6: every waiter that runs on a cell resolved by emplace(v) observes the
\* cell concrete and reads v, whether it was registered before or after.
C6_WaiterSeesPayload ==
  \A w \in Waiters :
    (ResolvedByEmplace /\ probe[w].fired >= 1) =>
      /\ probe[w].state = "ConcreteValue"
      /\ probe[w].payload = hist.first.v

\* One waiter registered before the emplace and run by the producer, one
\* registered after it, both having read the emplaced value.
C6_Witness ==
  \E w1, w2 \in Waiters :
    /\ ResolvedByEmplace
    /\ probe[w1].fired = 1 /\ probe[w1].thread = Producer
    /\ probe[w2].fired = 1 /\ probe[w2].availAtCall
    /\ probe[w1].payload = hist.first.v /\ probe[w2].payload = hist.first.v


\* ----------------------------------------------------- claims on the group

RECURSIVE SumOver(_, _)
SumOver(f, S) ==
  IF S = {} THEN 0
  ELSE LET x == CHOOSE y \in S : TRUE IN f[x] + SumOver(f, S \ {x})

Added(t) == adds.tokens[t] > 0
\* The call that resolves token t has returned.
Resolved(t) == token[t].call # "none" /\ Idle(Resolver(t))
ResolvedAdded == {t \in Tokens : Added(t) /\ IsAvailable(TokenCell(t))}

\* C7: for a group of size N > 0, the completion cell is unavailable while
\* fewer than N of the added tokens have resolved; and when exactly N tokens
\* were added and the calls adding and resolving them have returned, it is
\* available, whatever the order and interleaving (value or error alike).
C7_CompletionAfterNthToken ==
  (group.made /\ group.size > 0) =>
    /\ Cardinality(ResolvedAdded) < group.size => IsUnavailable(CompletedCell)
    /\ ( /\ adds.calls = group.size
         /\ \A a \in GroupAdders : Idle(a)
         /\ \A t \in Tokens : Added(t) => Resolved(t) )
       => IsConcrete(CompletedCell)

\* A group of two tokens, one resolved to an error and one to a value, both
\* calls returned, and the completion cell available.
C7_Witness ==
  /\ group.made /\ group.size = 2 /\ adds.calls = 2
  /\ \A t \in Tokens : Added(t) => Resolved(t)
  /\ \E t1, t2 \in Tokens :
       /\ Added(t1) /\ IsError(TokenCell(t1))
       /\ Added(t2) /\ IsConcrete(TokenCell(t2))
  /\ IsConcrete(CompletedCell)

\* C8: a group of declared size zero has its completion cell available from
\* its construction on.
C8_EmptyGroupIsComplete ==
  (group.made /\ group.size = 0) => IsConcrete(CompletedCell)

\* An empty group right after CreateGroup(0), no token added.
C8_Witness ==
  /\ group.made /\ group.size = 0
  /\ adds.calls = 0
  /\ IsConcrete(CompletedCell)

C10_CompletionNeverError ==
  /\ ~IsError(CompletedCell)
  /\ GetError(CompletedCell) = NoError

\* Every token of a group of two resolved to Error, and the group completed.
C10_Witness ==
  /\ group.made /\ group.size = 2
  /\ group.num_errors_ = 2
  /\ AsyncGroup_IsError
  /\ IsConcrete(CompletedCell)

\* The AddToken call registering token t has not yet come past the lambda's
\* count of the token's error: the call is at its fetch_add or inside AndThen,
\* or the lambda is queued on the token or at its first statement.
AddTokenCounting(t) ==
  \/ \E i \in 1..Len(av[TokenCell(t)].waiters) :
       av[TokenCell(t)].waiters[i].k = "group"
  \/ \E th \in GroupThreads : \E i \in 1..Len(stack[th]) :
       LET f == stack[th][i]
       IN \/ f.op = "AddToken" /\ f.tok = t
          \/ f.op = "AndThen" /\ f.w.k = "group" /\ f.w.id = t
          \/ f.op = "AddToken::waiter" /\ f.tok = t /\ f.pc = "is_error"
          \/ /\ f.op = "RunWaiters"
             /\ \E j \in 1..Len(f.list) : f.list[j] = GroupWaiter(t, f.list[j].reg)

ErrorTokens == {t \in Tokens : Added(t) /\ IsError(TokenCell(t))}

\* C11 as stated: at every moment IsError(group) is true exactly when a token
\* of the group is in the Error state.
C11_IsErrorIffTokenError ==
  group.made => (AsyncRuntime_IsError(group) <=> ErrorTokens # {})

\* C11 amended: IsError(group) is true only when a token of the group is in
\* the Error state, and it is true for every such token whose registration
\* with the group has run the lambda's first statement, which is the case
\* when both the call that resolved the token and the AddToken call have
\* returned, whatever the other tokens and the completion cell are.
C11_IsErrorOnceCounted ==
  group.made =>
    /\ AsyncRuntime_IsError(group) => ErrorTokens # {}
    /\ \A t \in ErrorTokens : ~AddTokenCounting(t) => AsyncRuntime_IsError(group)
    /\ \A t \in ErrorTokens :
         (Resolved(t) /\ \A a \in GroupAdders : Idle(a))
           => AsyncRuntime_IsError(group)

\* A group of two with one token resolved to Error and counted, the other
\* token still pending and the completion cell unavailable.
C11_Witness ==
  /\ group.made /\ group.size = 2 /\ adds.calls = 2
  /\ \E t1, t2 \in Tokens :
       /\ t1 \in ErrorTokens /\ Resolved(t1)
       /\ Added(t2) /\ IsUnavailable(TokenCell(t2))
  /\ \A a \in GroupAdders : Idle(a)
  /\ IsUnavailable(CompletedCell)
  /\ AsyncRuntime_IsError(group)

\* ------------------------------------ claims on reference counts and Await

\* The frame of the Await call of the owner of t, if it is inside one.
AwaitPc(t) ==
  IF \E i \in 1..Len(stack[Owner(t)]) : stack[Owner(t)][i].op = "Await"
    THEN LET i == CHOOSE i \in 1..Len(stack[Owner(t)]) :
                    stack[Owner(t)][i].op = "Await"
         IN stack[Owner(t)][i].pc
    ELSE "none"

\* C12: a token or value starts with two references; SetAvailable / SetError
\* drop one, after the terminal transition of the cell; the owner's DropRef
\* drops the other; the object is destroyed once, exactly when both have
\* happened, in either order.
C12_TwoPhaseRefCount ==
  \A t \in Objects :
    /\ token[t].ref = 2 - (IF token[t].dropped THEN 1 ELSE 0)
                        - (IF Resolved(t) THEN 1 ELSE 0)
    /\ (stack[Resolver(t)] # <<>> /\ Top(Resolver(t)).pc = "DropRef")
         => IsAvailable(TokenCell(t))
    /\ Resolved(t) => IsAvailable(TokenCell(t))
    /\ token[t].destroyed = IF token[t].dropped /\ Resolved(t) THEN 1 ELSE 0

\* The owner dropped its reference while the object was pending, which did
\* not destroy it; the producer's call destroyed it later.
C12_Witness ==
  \E t \in Objects :
    /\ token[t].droppedPending
    /\ Resolved(t)
    /\ token[t].ref = 0
    /\ token[t].destroyed = 1

\* C13: a thread that called Await is past the call only when the cell is
\* ConcreteValue or Error, and it was so when Await returned, in both modes.
C13_AwaitReturnsOnlyWhenAvailable ==
  \A t \in Objects :
    /\ (await[t].called /\ Idle(Owner(t)))
         => await[t].returned /\ IsAvailable(TokenCell(t))
    /\ await[t].returned =>
         /\ IsAvailableState(await[t].state)
         /\ await[t].state = av[TokenCell(t)].state

\* Host-scheduler mode: an Await called on a pending object has returned
\* after the producer resolved it to an error.
C13_Witness ==
  \E t \in Objects :
    /\ ~worker_threads_
    /\ await[t].returned
    /\ ~await[t].availAtCall
    /\ await[t].state = "Error"

\* C14: with worker threads, the latch of an Await call is counted down at
\* most once, from 1 to 0, and an Await on a cell that is available or whose
\* producer has started to resolve it eventually returns.
C14_AwaitEventuallyReturns ==
  /\ [](\A t \in Objects :
          /\ await[t].countdowns <= 1
          /\ latch[t].made => latch[t].count = 1 - await[t].countdowns)
  /\ \A t \in Objects :
       ( /\ worker_threads_
         /\ await[t].called
         /\ IsAvailable(TokenCell(t)) \/ token[t].call # "none" )
       ~> await[t].returned

\* The registration raced with the resolution: the cell was unavailable when
\* Await was called, the lambda ran on the awaiting thread itself, and Await
\* returned.
C14_Witness ==
  \E t \in Objects :
    /\ worker_threads_
    /\ await[t].raced
    /\ await[t].countdowns = 1
    /\ await[t].returned

\* C15: without worker threads Await goes through the host context's Await and
\* never makes a latch, and a call from a worker thread of the host context
\* ends in the fatal error and neither blocks nor returns; with worker
\* threads the host context's Await is never entered.
C15_HostModeRejectsWorker ==
  \A t \in Objects :
    /\ worker_threads_ =>
         /\ ~await[t].viaHost
         /\ AwaitPc(t) \in {"none", "enter", "wait"}
    /\ ~worker_threads_ =>
         /\ ~latch[t].made
         /\ AwaitPc(t) \in {"none", "enter", "host", "host_wait"}
         /\ await[t].returned => await[t].viaHost
         /\ await[t].fromWorker =>
              /\ ~await[t].returned
              /\ AwaitPc(t) # "host_wait"
              /\ await[t].viaHost => aborted

\* Await called from a worker thread of the host context ended the process.
C15_Witness ==
  \E t \in Objects :
    /\ ~worker_threads_
    /\ await[t].fromWorker
    /\ await[t].viaHost
    /\ aborted

\* ---------------------------------------------- claims on the handles

\* C16: the count of the cell is the number of its owners, CopyRef and
\* CopyRCRef raise it by one each, and the destructor runs once, when the
\* last owner has ended, and not before.
C16_DestroyedOnceWithLastOwner ==
  /\ av[TestCell].refs = Owners
  /\ Owners = 1 + handles.refAdds + handles.ptrAdds - handles.drops
  /\ handles.destroyed = IF Owners = 0 THEN 1 ELSE 0

\* CopyRef, then the end of both handles: destroyed once.
C16_Witness ==
  /\ handles.refAdds = 1
  /\ handles.drops = 2
  /\ handles.rcs = 0 /\ handles.raws = 0
  /\ handles.destroyed = 1

\* A step of an operation on or through an AsyncValuePtr, CopyRef apart.
PtrOperation ==
  \/ PtrFromRef \/ PtrFromRaw \/ PtrCopy \/ PtrDestroy \/ PtrQuery
  \/ PtrCallAndThen \/ PtrCallEmplace \/ PtrCallSetError
  \/ PtrCallSetStateConcrete
  \/ AndThenLoad(PtrUser) \/ AndThenCAS(PtrUser)
  \/ EmplaceConstruct(PtrUser) \/ EmplacePublish(PtrUser)
  \/ SetErrorStore(PtrUser) \/ SetErrorPublish(PtrUser)
  \/ SetStateConcretePublish(PtrUser) \/ InvokeProbe(PtrUser)

\* C17 as stated: no operation on or through an AsyncValuePtr, CopyRef
\* included, changes the count of the cell.
C17_PtrNeverChangesRefCount ==
  [][(PtrOperation \/ PtrCopyRef)
       => av'[TestCell].refs = av[TestCell].refs]_vars

\* C17 amended: no operation on or through an AsyncValuePtr changes the count
\* of the cell, except CopyRef, which raises it by exactly one.
C17_PtrChangesRefCountOnlyByCopyRef ==
  [][/\ PtrOperation => av'[TestCell].refs = av[TestCell].refs
     /\ PtrCopyRef => av'[TestCell].refs = av[TestCell].refs + 1]_vars

\* Two views alive, an emplace and an AndThen made through a view, a query
\* that saw the value, one CopyRef through a view: two references.
C17_Witness ==
  /\ handles.ptrs = 2
  /\ hist.first.op = "emplace" /\ hist.transitions[TestCell] = 1
  /\ probe[1].fired = 1
  /\ handles.seen.concrete
  /\ handles.ptrAdds = 1 /\ handles.drops = 0
  /\ av[TestCell].refs = 2

\* C20: each factory returns a cell with one reference in its state:
\* Unconstructed, Constructed, ConcreteValue, Error; and the Constructed cell
\* is unavailable as long as no producer call was made on it.
C20_FactoryStates ==
  /\ handles.made.refs = 1
  /\ handles.made.waiters = <<>>
  /\ handles.made.state =
       CASE handles.factory = "MakeUnconstructedAsyncValueRef" -> "Unconstructed"
         [] handles.factory = "MakeConstructedAsyncValueRef" -> "Constructed"
         [] handles.factory = "MakeAvailableAsyncValueRef" -> "ConcreteValue"
         [] handles.factory = "MakeErrorAsyncValueRef" -> "Error"
  /\ handles.factory = "MakeErrorAsyncValueRef" => handles.made.error = Boom
  /\ handles.factory \in {"MakeConstructedAsyncValueRef", "MakeAvailableAsyncValueRef"}
       => handles.made.payload \in Values
  /\ (handles.factory = "MakeConstructedAsyncValueRef" /\ calls = 0)
       => IsUnavailable(TestCell) /\ av[TestCell].state = "Constructed"
  /\ calls = 0 => av[TestCell].state = handles.made.state

\* A cell made by MakeConstructedAsyncValueRef that SetStateConcrete then
\* made available.
C20_Witness ==
  /\ handles.factory = "MakeConstructedAsyncValueRef"
  /\ hist.first.op = "SetStateConcrete"
  /\ IsConcrete(TestCell)
  /\ get(TestCell) = handles.made.payload


\* Ranks handed out so far, and AddToken calls that have not reached their
\* fetch_add yet.
RanksReturned == {r \in DOMAIN adds.ranks : adds.ranks[r] > 0}

BeforeFetchAdd ==
  {a \in Adders : /\ stack[a] # <<>>
                  /\ Top(a).op = "AddToken"
                  /\ Top(a).pc = "fetch_add"}

\* C18: for any number of AddToken calls on one group, from one thread or from
\* several at once, no rank is handed out twice, the ranks handed out by the k
\* calls that performed their increment are exactly 0..k-1, and rank_ never
\* decreases.
C18_RanksDistinctAndDense ==
  /\ [](/\ \A r \in DOMAIN adds.ranks : adds.ranks[r] <= 1
        /\ RanksReturned = 0..(group.rank_ - 1)
        /\ group.rank_ = adds.calls - Cardinality(BeforeFetchAdd))
  /\ [][group'.rank_ >= group.rank_]_vars

\* Three calls have been made, two of them by different threads still inside
\* AddToken after their increments, and a token was added more than once.
C18_Witness ==
  /\ group.rank_ = 3
  /\ adds.calls = 3
  /\ \A a \in Adders : ~Idle(a)
  /\ \E t \in Tokens : adds.tokens[t] >= 2


\* The typed continuations that have been invoked.
Invoked(form) == {w \in Waiters : probe[w].fired > 0 /\ probe[w].arg.form = form}

\* C19: while the producer makes no call on an available cell, a typed
\* continuation is invoked once, on an available cell, with the cell's outcome:
\* the Expected<T*> form gets a pointer to the cell's value, through which it
\* reads that value, when the cell is concrete, and a failed Expected with the
\* cell's error message when the cell is Error; the Error form gets an error
\* with that message when the cell is Error and success otherwise.
C19_TypedContinuationGetsOutcome ==
  hist.misuse = "none" =>
    /\ \A w \in Invoked("Expected") :
         /\ probe[w].fired = 1 /\ ~probe[w].early
         /\ IsConcrete(TestCell) =>
              /\ probe[w].arg = ExpectedValue(TestCell)
              /\ probe[w].payload = get(TestCell)
         /\ IsError(TestCell) =>
              /\ ~probe[w].arg.ok
              /\ probe[w].arg.err.failed
              /\ probe[w].arg.err.message = GetError(TestCell)
              /\ probe[w].error = Boom
    /\ \A w \in Invoked("Error") :
         /\ probe[w].fired = 1 /\ ~probe[w].early
         /\ IsError(TestCell) =>
              /\ probe[w].arg.err.failed
              /\ probe[w].arg.err.message = GetError(TestCell)
              /\ probe[w].error = Boom
         /\ IsConcrete(TestCell) => probe[w].arg = ErrorArg(Error_success)

\* An Expected continuation registered on a pending cell got the failed
\* Expected saying "boom" from the producer's SetError, and an Error
\* continuation got the same error.
C19_Witness ==
  /\ hist.misuse = "none"
  /\ hist.first.op = "SetError"
  /\ \E w \in Invoked("Expected") :
       /\ ~probe[w].availAtCall
       /\ probe[w].thread = Producer
       /\ probe[w].arg = ExpectedError(MakeStringError(Boom))
  /\ \E w \in Invoked("Error") : probe[w].arg = ErrorArg(MakeStringError(Boom))


C22_InlineIffFitsAndBufferDroppedOnce ==
  \A t \in Objects :
    LET st == token[t].storage
    IN /\ st.made
       /\ st.is_inline <=> (st.size <= 128 /\ st.alignment <= kAlign)
       /\ st.destroyed = token[t].destroyed
       /\ st.destroyed <= 1
       /\ st.is_inline =>
            ~st.host_buffer.allocated /\ st.host_buffer.drops = 0
       /\ ~st.is_inline =>
            /\ st.host_buffer.allocated
            /\ st.host_buffer.size = st.size
            /\ st.host_buffer.alignment = st.alignment
            /\ st.host_buffer.drops = st.destroyed
            /\ st.host_buffer.refs = 1 - st.destroyed

\* A request within the size budget but over-aligned went to a separate
\* buffer, and that buffer's reference was dropped when the value, resolved to
\* an error, was destroyed.
C22_Witness ==
  \E t \in Objects :
    /\ token[t].storage.size = 128
    /\ token[t].storage.alignment > kAlign
    /\ token[t].call = "SetError"
    /\ token[t].destroyed = 1
    /\ token[t].storage.host_buffer.drops = 1


\* The threads inside a SetStateConcrete call on the completion cell.
Marking ==
  {th \in GroupThreads :
     \E i \in 1..Len(stack[th]) :
       /\ stack[th][i].op = "SetStateConcrete"
       /\ stack[th][i].cell = CompletedCell}

\* C23: with the tokens of a group resolving on different threads,
\* SetStateConcrete is invoked on the completion cell at most once over the
\* group's lifetime: by the constructor of an empty group, which no waiter
\* marks again, or else by one token waiter and only when its decrement left
\* no token pending; and once every declared token's waiter has decremented,
\* one waiter has marked the cell or is marking it.
C23_CompletionMarkedByOneWaiter ==
  /\ Cardinality(Marking) + hist.transitions[CompletedCell] <= 1
  /\ group.made /\ group.size = 0 =>
       Marking = {} /\ hist.transitions[CompletedCell] = 1
  /\ group.size > 0 /\ (Marking # {} \/ hist.transitions[CompletedCell] = 1) =>
       /\ group.pending_tokens_ <= 0
       /\ SumOver(adds.decs, Tokens) >= group.size
  /\ group.made /\ group.size > 0 /\ SumOver(adds.decs, Tokens) >= group.size =>
       Cardinality(Marking) + hist.transitions[CompletedCell] = 1

\* Two tokens of a group of two were resolved by their two threads after both
\* were added; both waiters have decremented, the thread of one is marking
\* the completion cell and the thread of the other is still in its call.
C23_Witness ==
  /\ group.size = 2
  /\ \E a \in Tokens, b \in Tokens :
       /\ a # b
       /\ Resolver(a) \in Marking
       /\ ~Idle(Resolver(b))
       /\ adds.decs[a] = 1 /\ adds.decs[b] = 1


\* The tokens in Error whose lambda has taken its decrement.
ErrorTokensDone == {t \in ErrorTokens : adds.decs[t] = 1}

MoveOperation == RefConvert \/ RefRelease \/ RefReleaseRCRef

\* C25: converting an AsyncValueRef<Derived> into an AsyncValueRef<Base>,
\* ReleaseRCRef and release move the one reference the handle owns: the step
\* leaves the cell and its ref_count as they were, leaves one more empty
\* handle and as many owners of the same cell as before, so the count stays
\* the number of owners and the end of a handle moved from drops nothing.
C25_MoveTransfersReference ==
  /\ [](/\ av[TestCell].refs = Owners
        /\ handles.destroyed = IF Owners = 0 THEN 1 ELSE 0)
  /\ [][MoveOperation =>
          /\ av'[TestCell] = av[TestCell]
          /\ Owners' = Owners
          /\ handles'.empty = handles.empty + 1
          /\ handles'.drops = handles.drops]_vars
  /\ [][EmptyRefEnds => av'[TestCell] = av[TestCell] /\ Owners' = Owners]_vars

\* After a conversion the handle moved from has ended and the cell, with its
\* count of one, is still there; the destination then ended and the cell was
\* destroyed with it.
C25_Witness ==
  /\ handles.moves >= 1
  /\ handles.empty = 0
  /\ handles.refAdds = 0
  /\ handles.drops = 1
  /\ handles.destroyed = 1


\* The first emplace(Expected<T>) call was made on an unavailable cell and has
\* returned.
EmplaceExpectedReturned ==
  /\ hist.first.op = "emplace(Expected)"
  /\ ~aborted
  /\ ~\E i \in 1..Len(stack[Producer]) :
        stack[Producer][i].op \in {"emplace", "SetError"}

\* C26: emplace(Expected<T>) on an unavailable cell makes one terminal
\* transition and no second one; when the call has returned the cell is
\* ConcreteValue holding the value if the Expected held a value, and Error
\* carrying the Expected's error message, with no value emplaced, if it held
\* an error.
C26_EmplaceExpectedOneTransition ==
  /\ hist.transitions[TestCell] <= 1
  /\ EmplaceExpectedReturned =>
       /\ hist.transitions[TestCell] = 1
       /\ IsAvailable(TestCell)
       /\ hist.first.diag = "" =>
            /\ IsConcrete(TestCell)
            /\ get(TestCell) = hist.first.v
            /\ GetError(TestCell) = NoError
       /\ hist.first.diag # "" =>
            /\ IsError(TestCell)
            /\ GetError(TestCell) = Boom
            /\ hist.first.diag = Boom

\* emplace(Expected<T>) holding the error "boom" was called on a cell with a
\* continuation queued; the cell is in Error and the continuation saw "boom".
C26_Witness ==
  /\ EmplaceExpectedReturned
  /\ hist.first.diag = Boom
  /\ IsError(TestCell)
  /\ \E w \in Waiters :
       /\ ~probe[w].availAtCall
       /\ probe[w].fired = 1
       /\ probe[w].error = Boom


\* Adder a is inside an AddToken call for token t that has not yet counted
\* the token's error, or not yet taken its decrement.
BeforeCount(a, t) ==
  /\ stack[a] # <<>>
  /\ LET f == Top(a)
     IN \/ f.op = "AddToken" /\ f.tok = t
        \/ f.op = "AndThen" /\ f.w.k = "group" /\ f.w.id = t
        \/ f.op = "AddToken::waiter" /\ f.tok = t /\ f.pc = "is_error"

BeforeDecrement(a, t) ==
  \/ BeforeCount(a, t)
  \/ /\ stack[a] # <<>>
     /\ Top(a).op = "AddToken::waiter" /\ Top(a).tok = t
     /\ Top(a).pc \in {"assert", "fetch_sub"}

ResolvedBefore == {t \in Tokens : token[t].call # "none"}

CountedErrors(t) ==
  IF IsError(TokenCell(t))
    THEN adds.tokens[t] - Cardinality({a \in Adders : BeforeCount(a, t)})
    ELSE 0

\* C27: AddToken on a token that is already resolved runs the lambda inline:
\* every such call that has returned has taken its decrement of
\* pending_tokens_, and has counted the error of a token in Error before; so
\* when the N calls adding N tokens, all resolved beforehand, to a group of
\* size N have returned, the completion cell is available.
C27_ResolvedTokenRunsInline ==
  group.made =>
    /\ \A t \in ResolvedBefore :
         adds.decs[t] =
           adds.tokens[t] - Cardinality({a \in Adders : BeforeDecrement(a, t)})
    /\ group.num_errors_ =
         SumOver([t \in Tokens |-> CountedErrors(t)], ResolvedBefore)
    /\ ( /\ group.size > 0
         /\ adds.calls = group.size
         /\ \A a \in Adders : Idle(a)
         /\ \A t \in Tokens : adds.tokens[t] > 0 => t \in ResolvedBefore )
       => IsAvailable(CompletedCell)

\* A group of two was given two tokens resolved beforehand, one of them in
\* Error, by two calls that have returned: it is complete with one error.
C27_Witness ==
  /\ group.made /\ group.size = 2 /\ adds.calls = 2
  /\ \A a \in Adders : Idle(a)
  /\ \A t \in Tokens : adds.tokens[t] = 1 /\ t \in ResolvedBefore
  /\ group.num_errors_ = 1
  /\ group.pending_tokens_ = 0
  /\ IsConcrete(CompletedCell)


\* ------------------------------------------- the lifetime of a token
\* The caller that got token t from CreateToken hands it to AddTokenToGroup
\* while it holds its reference, and drops the reference at any moment after
\* the call is through with the token, resolved or not.
CallAddTokenHeld(a, t) ==
  /\ ~token[t].dropped
  /\ CallAddToken(a, t)

DropRefAfterAdd(t) ==
  /\ ~aborted
  /\ ~token[t].dropped
  /\ \A a \in GroupAdders : ~BeforeDecrement(a, t)
  /\ token' = [token EXCEPT
                 ![t] = [ReferenceCounted_DropRef(@) EXCEPT
                           !.dropped = TRUE,
                           !.droppedPending = IsUnavailable(TokenCell(t))]]
  /\ UNCHANGED <<av, stack, aborted, cellSide, group, adds, runtimeSide,
                 handles>>

\* A group made by CreateGroup for the NumTokens tokens made by CreateToken.
LifeInit ==
  /\ av = [c \in Cells |->
             IF c = TestCell THEN MakeUnconstructedAsyncValueRef
             ELSE IF c = CompletedCell THEN AsyncGroup_completed(NumTokens)
             ELSE MakeConstructedAsyncValueRef(NoValue)]
  /\ stack = [t \in Threads |-> <<>>]
  /\ aborted = FALSE
  /\ calls = 0
  /\ probe = [w \in Waiters |-> InitProbe]
  /\ hist = InitHist
  /\ group = AsyncGroup(NumTokens)
  /\ token = [t \in Tokens |-> CreateToken]
  /\ adds = NoAdds
  /\ InitRuntimeSide
  /\ handles = InitHandles

LifeNext ==
  \/ \E t \in Tokens : CallSetAvailable(t)
  \/ \E t \in Tokens : CallSetErrorToken(t)
  \/ \E a \in GroupAdders, t \in Tokens : CallAddTokenHeld(a, t)
  \/ \E t \in Tokens : DropRefAfterAdd(t)
  \/ \E th \in GroupThreads : AddTokenFetchAdd(th)
  \/ \E th \in GroupThreads : AndThenLoad(th)
  \/ \E th \in GroupThreads : AndThenCAS(th)
  \/ \E th \in GroupThreads : SetStateConcretePublish(th)
  \/ \E th \in GroupThreads : SetErrorStore(th)
  \/ \E th \in GroupThreads : SetErrorPublish(th)
  \/ \E th \in GroupThreads : WaiterIsError(th)
  \/ \E th \in GroupThreads : WaiterAssert(th)
  \/ \E th \in GroupThreads : WaiterFetchSub(th)
  \/ \E th \in GroupThreads : DropRef(th)

LifeSpec == LifeInit /\ [][LifeNext]_vars

\* Thread th is running, or has still to run, a waiter registered on token t,
\* or is inside the terminal transition of the cell of t.
UsesToken(th, t) ==
  \E i \in 1..Len(stack[th]) :
    LET f == stack[th][i]
    IN \/ f.op = "AddToken::waiter" /\ f.tok = t
       \/ f.op = "RunWaiters" /\ \E j \in 1..Len(f.list) :
            f.list[j].k = "group" /\ f.list[j].id = t
       \/ f.op \in {"SetStateConcrete", "SetError"} /\ f.cell = TokenCell(t)

\* C28: a waiter registered on a token runs while the token is alive: the
\* producer's reference is dropped only after the terminal transition has run
\* the queued waiters, so the token outlives them also when its owner dropped
\* its reference while the token was pending.
C28_WaitersRunOnLiveToken ==
  \A t \in Tokens :
    /\ \A th \in GroupThreads :
         UsesToken(th, t) => token[t].destroyed = 0 /\ token[t].ref >= 1
    /\ token[t].destroyed = 1 =>
         /\ av[TokenCell(t)].waiters = <<>>
         /\ adds.decs[t] = adds.tokens[t]

\* The owner dropped its reference while the token was pending, and the
\* producer is running the waiter queued on it by AddToken.
C28_Witness ==
  \E t \in Tokens :
    /\ token[t].droppedPending
    /\ stack[Resolver(t)] # <<>>
    /\ Top(Resolver(t)).op = "AddToken::waiter"
    /\ Top(Resolver(t)).tok = t
    /\ token[t].ref = 1


\* ------------------------------------------- the lifetime of a group
\* The caller that got the group from CreateGroup adds tokens to it while it
\* holds its reference, and drops the reference between two calls, whether or
\* not the tokens added have resolved.
CallAddTokenLive(a, t) ==
  /\ group.ref >= 1
  /\ CallAddToken(a, t)

\* AsyncRuntime::DropRef(group): the group destroys itself at count zero.
DropRefGroup ==
  /\ ~aborted
  /\ group.ref >= 1
  /\ \A a \in GroupAdders : Idle(a)
  /\ group' = [group EXCEPT !.ref = @ - 1,
                            !.destroyed = IF group.ref = 1 THEN @ + 1 ELSE @]
  /\ UNCHANGED <<av, stack, aborted, cellSide, token, adds, runtimeSide,
                 handles>>

\* The lambda of AddToken on a group that was destroyed reads and writes
\* freed memory: the process may crash there, or go on as if the counters
\* were still in place.
WaiterOnDestroyedGroup(th) ==
  /\ ~aborted
  /\ stack[th] # <<>>
  /\ Top(th).op = "AddToken::waiter"
  /\ group.destroyed = 1
  /\ aborted' = TRUE
  /\ UNCHANGED <<av, stack, cellSide, groupSide, runtimeSide, handles>>

GroupLifeNext ==
  \/ \E t \in Tokens : CallSetAvailable(t)
  \/ \E t \in Tokens : CallSetErrorToken(t)
  \/ \E a \in GroupAdders, t \in Tokens : CallAddTokenLive(a, t)
  \/ DropRefGroup
  \/ \E th \in GroupThreads : WaiterOnDestroyedGroup(th)
  \/ \E th \in GroupThreads : AddTokenFetchAdd(th)
  \/ \E th \in GroupThreads : AndThenLoad(th)
  \/ \E th \in GroupThreads : AndThenCAS(th)
  \/ \E th \in GroupThreads : SetStateConcretePublish(th)
  \/ \E th \in GroupThreads : SetErrorStore(th)
  \/ \E th \in GroupThreads : SetErrorPublish(th)
  \/ \E th \in GroupThreads : WaiterIsError(th)
  \/ \E th \in GroupThreads : WaiterAssert(th)
  \/ \E th \in GroupThreads : WaiterFetchSub(th)
  \/ \E th \in GroupThreads : DropRef(th)

GroupLifeSpec == LifeInit /\ [][GroupLifeNext]_vars

\* C29: the group is alive, its reference count above zero, whenever a lambda
\* registered by AddToken for one of its tokens runs; AddToken takes no
\* reference on the group or on the token, so the counts never exceed what
\* CreateGroup and CreateToken gave.
C29_GroupAliveWhenWaiterRuns ==
  /\ \A th \in GroupThreads :
       (stack[th] # <<>> /\ Top(th).op = "AddToken::waiter")
         => group.ref >= 1 /\ group.destroyed = 0
  /\ group.ref <= 1
  /\ \A t \in Tokens : token[t].ref <= 2


\* The lambda that Await registered for object t is queued on the cell, or is
\* on some thread's stack, running or still to run.
LatchLambdaPending(t) ==
  \/ \E j \in 1..Len(av[TokenCell(t)].waiters) :
       av[TokenCell(t)].waiters[j] = LatchWaiter(t)
  \/ \E th \in RuntimeThreads : \E i \in 1..Len(stack[th]) :
       LET f == stack[th][i]
       IN \/ f.op = "latch::count_down" /\ f.tok = t
          \/ f.op = "AndThen" /\ f.w = LatchWaiter(t)
          \/ f.op = "RunWaiters" /\ \E j \in 1..Len(f.list) :
               f.list[j] = LatchWaiter(t)

\* C30: with worker threads, the lambda that Await registers on the cell has
\* run, once, when Await returns: none is queued or still to run after the
\* return, when the latch on the stack of Await is gone, and it never runs
\* twice.
C30_LatchLambdaRanBeforeReturn ==
  \A t \in Objects :
    /\ await[t].countdowns <= 1
    /\ (await[t].returned /\ ~await[t].viaHost) =>
         /\ await[t].countdowns = 1
         /\ ~LatchLambdaPending(t)

\* Await was called on a pending object with worker threads, the producer
\* ran the lambda, and Await has returned.
C30_Witness ==
  \E t \in Objects :
    /\ worker_threads_
    /\ await[t].returned
    /\ ~await[t].availAtCall
    /\ ~await[t].raced
    /\ await[t].countdowns = 1
    /\ latch[t].count = 0

====
